---- MODULE Spec2Model ----
(***************************************************************************)
(* Candidate enumeration scanners of the PHANTOM toolkit:                  *)
(*   phantom/modules/recon.py  PortScanner, SubdomainFinder                *)
(*   phantom/modules/web.py    DirectoryBuster, SQLiScanner, XSSScanner    *)
(* The three pool scanners submit one future per candidate to a            *)
(* ThreadPoolExecutor and collect the results with as_completed; the two   *)
(* vulnerability scanners test (parameter, payload) pairs sequentially.    *)
(* Strings are sequences of character codes, compared as Python compares   *)
(* str values (lexicographically by code point).                           *)
(***************************************************************************)
EXTENDS Integers, Sequences, FiniteSets, TLC

\* ------------------------------------------------------------------ bounds
\* longest candidate list passed by the caller
MaxLen == 2
\* largest pool size (threads) a scanner is constructed with
MaxThreads == 2

\* --------------------------------------------------------------- universes
PoolKinds == {"port", "sub", "dir"}
VulnKinds == {"sqli", "xss"}

\* per-probe timeouts a scanner is constructed with (0: non-positive)
Timeouts == {0, 1}
\* time the network operation behind one probe may take
Durations == {1, 2}

\* ports a caller may pass (ports: Optional[List[int]])
PortUniverse == {0, 22, 80}
\* subdomain labels a caller may pass: "a" and "a-b" (45 is '-')
LabelUniverse == {<<97>>, <<97, 45, 98>>}
\* paths a caller may pass: "a", "b"
PathUniverse == {<<97>>, <<98>>}
\* the scanned domain: "t"
Target == <<116>>
\* the '.' of f"{sub}.{target}"
Dot == 46

Universe(kind) ==
    CASE kind = "port" -> PortUniverse
      [] kind = "sub" -> LabelUniverse
      [] kind = "dir" -> PathUniverse

\* PortScanner.COMMON_PORTS, SubdomainFinder.DEFAULT_WORDLIST,
\* DirectoryBuster.COMMON_DIRS and COMMON_FILES: the leading entries of each
COMMON_PORTS == <<21, 22>>
DEFAULT_WORDLIST == <<<<97>>, <<98>>>>
COMMON_DIRS == <<<<97>>>>
COMMON_FILES == <<<<98>>>>

\* SQLiScanner.PAYLOADS, SQLiScanner.ERROR_PATTERNS, XSSScanner.PAYLOADS:
\* the leading entries of each
SQLI_PAYLOADS == <<"' OR '1'='1", "' OR '1'='1' --">>
ERROR_PATTERNS == <<"sql syntax", "mysql_fetch">>
XSS_PAYLOADS == <<"<script>alert('XSS')</script>", "<img src=x onerror=alert('XSS')>">>
\* query parameter names of the scanned URL
ParamUniverse == {"id", "q"}
\* SQLiScanner / XSSScanner timeout: int = 10
VulnTimeout == 10

Range(s) == {s[i] : i \in 1..Len(s)}
SeqsUpTo(S, n) == UNION {[1..k -> S] : k \in 0..n}

\* connect_ex return values (0 success, 111 ECONNREFUSED), the resolver's
\* answer, and the HTTP status codes a server answers with
Codes(kind) ==
    CASE kind = "port" -> {0, 111}
      [] kind = "sub" -> {0}
      [] kind = "dir" -> {200, 301, 302, 403, 404}

\* What the network does for one candidate: the operation returns `code`
\* after `dur` time units, or raises.
Outcomes(kind) ==
    [res : {"ret"}, code : Codes(kind), dur : Durations]
        \cup [res : {"raise"}, code : {0}, dur : {1}]

PAYLOADS(kind) == IF kind = "sqli" THEN SQLI_PAYLOADS ELSE XSS_PAYLOADS

\* What the server does for one (parameter, payload) request: it answers
\* with a body in which the patterns `errs` match and which echoes the
\* payload when `echo`, or the request raises (transport error, timeout).
Responses(kind) ==
    (IF kind = "sqli"
     THEN [res : {"ret"}, errs : SUBSET Range(ERROR_PATTERNS), echo : {FALSE}]
     ELSE [res : {"ret"}, errs : {{}}, echo : BOOLEAN])
        \cup [res : {"raise"}, errs : {{}}, echo : {FALSE}]

\* query_params of the scanned URL: distinct names in dict order
ParamLists ==
    {s \in SeqsUpTo(ParamUniverse, Cardinality(ParamUniverse)) :
        \A i, j \in 1..Len(s) : i # j => s[i] # s[j]}

\* ------------------------------------------------------- Python semantics
\* str.__lt__: lexicographic by code point, a proper prefix sorts first
RECURSIVE StrLess(_, _)
StrLess(a, b) ==
    IF b = <<>> THEN FALSE
    ELSE IF a = <<>> THEN TRUE
    ELSE IF Head(a) # Head(b) THEN Head(a) < Head(b)
    ELSE StrLess(Tail(a), Tail(b))

\* the order sorted() uses on the hits of a scanner: ints, str
HitLess(kind, a, b) ==
    CASE kind = "port" -> a < b
      [] kind = "sub" -> StrLess(a, b)

RECURSIVE Insert(_, _, _)
Insert(kind, x, s) ==
    IF s = <<>> THEN <<x>>
    ELSE IF HitLess(kind, x, Head(s)) THEN <<x>> \o s
    ELSE <<Head(s)>> \o Insert(kind, x, Tail(s))

\* sorted(list)
RECURSIVE Sorted(_, _)
Sorted(kind, s) ==
    IF s = <<>> THEN <<>>
    ELSE Insert(kind, s[Len(s)], Sorted(kind, SubSeq(s, 1, Len(s) - 1)))

\* what a call returns: None, a value, or an exception that escapes it
None == [some |-> FALSE, val |-> 0, exc |-> FALSE]
Some(v) == [some |-> TRUE, val |-> v, exc |-> FALSE]
Raised == [some |-> FALSE, val |-> 0, exc |-> TRUE]

\* bool(x) of a probe's return value: None, 0 and "" are falsy, a tuple
\* (path, status) is truthy
Truthy(kind, r) ==
    /\ r.some
    /\ kind = "port" => r.val # 0
    /\ kind = "sub" => r.val # <<>>

\* ------------------------------------------------------------------ state
VARIABLES
    scanner,    \* which scanner object this is
    threads,    \* self.threads
    timeout,    \* self.timeout
    given,      \* TRUE when the caller passes a list, FALSE when it passes None
    arg,        \* the list the caller passes (ports / wordlist / params)
    env,        \* what the network does for each candidate
    pc,         \* "idle", "collecting", "testing", "returned", "raised",
                \* "interrupted" (KeyboardInterrupt inside the with block),
                \* "cancelled" (KeyboardInterrupt has left scan)
    cands,      \* the list scanned: ports / wordlist after defaulting
    fut,        \* state of each submitted future
    ret,        \* return value of each finished future
    probes,     \* how often the probe function was entered, per future
    found,      \* open_ports / found_subdomains / found
    result,     \* the returned result object
    run,        \* 1 in the first call of scan, 2 in the second
    prev,       \* the result of the first call
    pidx,       \* SQLi/XSS: position of the loop over query_params
    yidx,       \* SQLi/XSS: position of the loop over PAYLOADS
    pool        \* the ThreadPoolExecutor objects: how many were made, and
                \* whether the latest is open (not yet shut down)

scanVars == <<scanner, threads, timeout, given, arg, env, pc, cands, fut, ret,
              probes, found, result, run, prev, pidx, yidx, pool>>

VARIABLES
    hash_value,     \* HashIdentifier.identify: the string to classify
    possible_types, \* identify: the list being built
    hidx,           \* identify: position in PATTERNS.items(), 0 when not
                    \* called, Len(PATTERNS) + 1 when the loop is over,
                    \* Len(PATTERNS) + 2 when identify has returned
    data,           \* FileCarver.carve: the bytes read from source_path
    file_types,     \* carve: the list of type names to carve
    ftidx,          \* carve: position of the loop over file_types
    start,          \* carve: where the next header search begins
    carved,         \* carve: the units written so far, as
                    \* [type, pos, end] in the order of carved_files
    cpc,            \* carve: "off", "idle" (not yet called), "types" (at the
                    \* for loop), "scan" (in the while loop), "done"
    dkind,          \* two concurrent calls: which scanner object is shared
    dthreads,       \* two concurrent calls: self.threads of that object
    denv,           \* what the network does per target and candidate
    dcall,          \* the local state of each of the two scan calls
    dlists          \* the hit list objects

hashVars == <<hash_value, possible_types, hidx>>
carveVars == <<data, file_types, ftidx, start, carved, cpc>>
duoVars == <<dkind, dthreads, denv, dcall, dlists>>
\* ------------------------------------------- state of the other components
VARIABLES
    tresp,          \* TechFingerprint.scan: what requests.get does
    detected,       \* TechFingerprint.scan: the list being built
    tidx,           \* TechFingerprint.scan: position in TECH_SIGNATURES.items()
    tpc,            \* TechFingerprint.scan: off, idle, signatures, server, returned, failed
    ccall,          \* cracking: the call and its arguments
    cenv,           \* cracking: whether hashlib has md4, and which plaintexts hash to the target
    ctype,          \* cracking: the hash_type the attack was given
    cidx,           \* cracking: position in the candidates / the wordlist
    tested,         \* cracking: the plaintexts hashed so far, in order
    tried,          \* cracking: the hash types _hash_string was called with
    cret,           \* cracking: the value returned
    kpc,            \* cracking: off, idle, brute, dict, returned, raised
    icall,          \* injection: the scanner kind and the query parameters of the call
    qparams,        \* injection: the query_params dict of the running scan
    isent,          \* injection: the probes sent so far, each with its test_params
    ifound,         \* injection: result.vulnerabilities
    ipos,           \* injection: position of the two loops, parameter and payload
    ipc,            \* injection: off, idle, testing, returned
    scur,           \* sessions: current_session
    sfile,          \* sessions: the session file last written
    sclock,         \* sessions: the clock datetime.now() reads
    slast,          \* sessions: the last call and its arguments
    sprev,          \* sessions: current_session before the last call
    spc,            \* sessions: off, ready
    plugins,        \* plugins: the names in _plugins, the loaded instances
    metadata,       \* plugins: the names in _metadata
    hooks,          \* plugins: _hooks, hook name to callback list
    invoked,        \* plugins: the callbacks the last trigger_hook called, in order
    plast,          \* plugins: the last call, its arguments and what it returned
    pprev,          \* plugins: the tables before the last call
    pcalls,         \* plugins: calls made so far
    ppc,            \* plugins: off, ready
    session_active, \* engine: state.session_active
    initialized,    \* engine: state.initialized
    choice,         \* engine: the last answer of get_user_input at the menu
    eof,            \* engine: whether that answer stands for end of input
    cleaned,        \* engine: whether cleanup() has been executed
    ecause,         \* engine: the step whose exception is being handled
    menus,          \* engine: loop iterations begun
    epc             \* engine: off, new, while, banner, prompt, jackout, farewell, config, module, handler, returned, raised, exited

techVars == <<tresp, detected, tidx, tpc>>
crackVars == <<ccall, cenv, ctype, cidx, tested, tried, cret, kpc>>
injectVars == <<icall, qparams, isent, ifound, ipos, ipc>>
sessVars == <<scur, sfile, sclock, slast, sprev, spc>>
pluginVars == <<plugins, metadata, hooks, invoked, plast, pprev, pcalls, ppc>>
engineVars == <<session_active, initialized, choice, eof, cleaned, ecause, menus, epc>>
newVars == <<techVars, crackVars, injectVars, sessVars, pluginVars, engineVars>>

\* no fingerprint scan is in progress
NoTech ==
    /\ tresp = <<>>
    /\ detected = <<>>
    /\ tidx = 0
    /\ tpc = "off"
\* no cracking call is in progress
NoCrack ==
    /\ ccall = <<>>
    /\ cenv = <<>>
    /\ ctype = "none"
    /\ cidx = 0
    /\ tested = <<>>
    /\ tried = {}
    /\ cret = None
    /\ kpc = "off"
\* no injection scan is in progress
NoInject ==
    /\ icall = <<>>
    /\ qparams = <<>>
    /\ isent = <<>>
    /\ ifound = <<>>
    /\ ipos = <<0, 0>>
    /\ ipc = "off"
\* no session manager exists
NoSess ==
    /\ scur = <<>>
    /\ sfile = <<>>
    /\ sclock = 0
    /\ slast = <<>>
    /\ sprev = <<>>
    /\ spc = "off"
\* no plugin manager exists
NoPlugin ==
    /\ plugins = {}
    /\ metadata = {}
    /\ hooks = <<>>
    /\ invoked = <<>>
    /\ plast = <<>>
    /\ pprev = <<>>
    /\ pcalls = 0
    /\ ppc = "off"
\* no engine exists
NoEngine ==
    /\ session_active = FALSE
    /\ initialized = FALSE
    /\ choice = <<>>
    /\ eof = FALSE
    /\ cleaned = FALSE
    /\ ecause = "none"
    /\ menus = 0
    /\ epc = "off"
NoNew ==
    /\ NoTech
    /\ NoCrack
    /\ NoInject
    /\ NoSess
    /\ NoPlugin
    /\ NoEngine
\* ------------------------------------------------- (all state is declared)

otherVars == <<hashVars, carveVars, duoVars, newVars>>

\* no identify call is in progress
NoHash == hash_value = <<>> /\ possible_types = <<>> /\ hidx = 0
\* no carve call is in progress
NoCarve ==
    /\ data = <<>>
    /\ file_types = <<>>
    /\ ftidx = 0
    /\ start = 0
    /\ carved = <<>>
    /\ cpc = "off"
\* no pair of concurrent scans is in progress
NoDuo ==
    /\ dkind = "none"
    /\ dthreads = 0
    /\ denv = <<>>
    /\ dcall = <<>>
    /\ dlists = <<>>

NoResult == [hits |-> <<>>, total |-> 0 - 1, count |-> 0 - 1]

\* ports = ports or self.COMMON_PORTS (and the two wordlist defaults):
\* None and the empty list are both falsy
Effective(kind, list) ==
    IF list # <<>> THEN list
    ELSE CASE kind = "port" -> COMMON_PORTS
           [] kind = "sub" -> DEFAULT_WORDLIST
           [] kind = "dir" -> COMMON_DIRS \o COMMON_FILES

\* --------------------------------------------------------------- probes
\* mutant of check_port: no try/except around the socket calls
check_port_nocatch(port) ==
    LET o == env[port] IN
    IF o.res = "raise" THEN Raised
    ELSE IF o.dur > timeout THEN None
    ELSE IF o.code = 0 THEN Some(port)
    ELSE None

\* PortScanner.scan.check_port: settimeout(self.timeout), connect_ex; a
\* connect that outlasts the timeout (or a zero timeout, which makes the
\* socket non-blocking) returns a non-zero errno
check_port(port) ==
    LET o == env[port] IN
    IF o.res = "raise" THEN None
    ELSE IF o.dur > timeout THEN None
    ELSE IF o.code = 0 THEN Some(port)
    ELSE None

\* SubdomainFinder.scan.check_subdomain: gethostbyname, no timeout applied
check_subdomain(sub) ==
    LET subdomain == sub \o <<Dot>> \o Target
        o == env[sub] IN
    IF o.res = "raise" THEN None
    ELSE Some(subdomain)

\* mutant of check_path: 403 is missing from the status list
check_path_no403(path) ==
    LET o == env[path] IN
    IF o.res = "raise" THEN None
    ELSE IF o.dur > timeout THEN None
    ELSE IF o.code \in {200, 301, 302} THEN Some(<<path, o.code>>)
    ELSE None

\* DirectoryBuster.scan.check_path: session.get(timeout=self.timeout); a
\* request that outlasts the timeout (or a timeout <= 0) raises inside try
check_path(path) ==
    LET o == env[path] IN
    IF o.res = "raise" THEN None
    ELSE IF o.dur > timeout THEN None
    ELSE IF o.code \in {200, 301, 302, 403} THEN Some(<<path, o.code>>)
    ELSE None

Probe(kind, c) ==
    CASE kind = "port" -> check_port(c)
      [] kind = "sub" -> check_subdomain(c)
      [] kind = "dir" -> check_path(c)

\* ------------------------------------------------------------------- init
InitPool ==
    /\ scanner \in PoolKinds
    /\ threads \in 0..MaxThreads
    /\ timeout \in Timeouts
    /\ given \in BOOLEAN
    /\ arg \in IF given THEN SeqsUpTo(Universe(scanner), MaxLen) ELSE {<<>>}
    /\ env \in [Range(Effective(scanner, arg)) -> Outcomes(scanner)]

\* SQLiScanner() and XSSScanner() have no pool; `arg` is query_params
InitVuln ==
    /\ scanner \in VulnKinds
    /\ threads = 1
    /\ timeout = VulnTimeout
    /\ given = TRUE
    /\ arg \in ParamLists
    /\ env \in [Range(arg) \X Range(PAYLOADS(scanner)) -> Responses(scanner)]

Init ==
    /\ InitPool \/ InitVuln
    /\ pc = "idle"
    /\ cands = <<>>
    /\ fut = <<>>
    /\ ret = <<>>
    /\ probes = <<>>
    /\ found = <<>>
    /\ result = NoResult
    /\ run = 1
    /\ prev = NoResult
    /\ pidx = 0
    /\ yidx = 0
    /\ pool = [made |-> 0, open |-> FALSE]
    /\ NoHash
    /\ NoCarve
    /\ NoDuo
    /\ NoNew

\* ---------------------------------------------------------- pool scanners
Running == {i \in 1..Len(fut) : fut[i] = "running"}

\* ThreadPoolExecutor(max_workers=self.threads): ValueError when <= 0
PoolCreated == threads > 0

\* with ThreadPoolExecutor(...) as executor: a new executor for this call
NewPool(p) == [made |-> p.made + 1, open |-> TRUE]

\* mutant of Shutdown: the executor is left running when scan ends
KeepOpen(p) == p

\* the with block's __exit__: executor.shutdown(wait=True)
Shutdown(p) == [p EXCEPT !.open = FALSE]

\* scan(): default the list, create the pool, submit one future per entry
Scan ==
    /\ pc = "idle"
    /\ scanner \in PoolKinds
    /\ LET cs == Effective(scanner, arg) IN
        /\ cands' = cs
        /\ found' = <<>>
        /\ IF PoolCreated
           THEN /\ pc' = "collecting"
                /\ fut' = [i \in 1..Len(cs) |-> "pending"]
                /\ ret' = [i \in 1..Len(cs) |-> None]
                /\ probes' = [i \in 1..Len(cs) |-> 0]
           ELSE /\ pc' = "raised"
                /\ UNCHANGED <<fut, ret, probes>>
    /\ pool' = IF PoolCreated THEN NewPool(pool) ELSE pool
    /\ UNCHANGED <<scanner, threads, timeout, given, arg, env, result, run, prev, pidx, yidx>>
    /\ UNCHANGED otherVars

\* mutant of WorkerFree: a work item starts although no worker is idle
WorkerAlwaysFree == TRUE

\* a pool of max_workers threads has a thread that is not running a probe
WorkerFree == Cardinality(Running) < threads

\* mutant of Queued: a work item whose probe failed is queued again
QueuedOrFailed(i) ==
    fut[i] = "pending" \/ (fut[i] = "finished" /\ ~ret[i].some)

\* work item i was submitted (once, by the dict comprehension) and no
\* worker has taken it yet
Queued(i) == fut[i] = "pending"

\* the pool's threads take work while scan collects and, after a
\* KeyboardInterrupt, while the with block's shutdown(wait=True) waits:
\* shutdown does not cancel the queued work items
PoolAlive == pc \in {"collecting", "interrupted"}

\* a free worker takes the oldest queued work item and enters the probe
WorkerStart ==
    /\ PoolAlive
    /\ WorkerFree
    /\ \E i \in 1..Len(fut) :
        /\ Queued(i)
        /\ \A j \in 1..(i - 1) : ~Queued(j)
        /\ fut' = [fut EXCEPT ![i] = "running"]
        /\ probes' = [probes EXCEPT ![i] = @ + 1]
    /\ UNCHANGED <<pool, scanner, threads, timeout, given, arg, env, pc, cands, ret,
                   found, result, run, prev, pidx, yidx>>
    /\ UNCHANGED otherVars

\* the probe of future i returns; workers finish in any order
WorkerFinish(i) ==
    /\ PoolAlive
    /\ fut[i] = "running"
    /\ fut' = [fut EXCEPT ![i] = "finished"]
    /\ ret' = [ret EXCEPT ![i] = Probe(scanner, cands[i])]
    /\ UNCHANGED <<pool, scanner, threads, timeout, given, arg, env, pc, cands,
                   probes, found, result, run, prev, pidx, yidx>>
    /\ UNCHANGED otherVars

\* for future in as_completed(futures): result = future.result();
\* if result: <list>.append(result).  future.result() re-raises an exception
\* that escaped the probe, which ends scan.
Collect(i) ==
    /\ pc = "collecting"
    /\ fut[i] = "finished"
    /\ fut' = [fut EXCEPT ![i] = "yielded"]
    /\ pc' = IF ret[i].exc THEN "raised" ELSE pc
    /\ found' = IF Truthy(scanner, ret[i]) THEN Append(found, ret[i].val)
                ELSE found
    /\ UNCHANGED <<pool, scanner, threads, timeout, given, arg, env, cands, ret,
                   probes, result, run, prev, pidx, yidx>>
    /\ UNCHANGED otherVars

\* mutant of MakeResult: the hit list is returned in completion order
MakeResultUnsorted(kind, hits, list) ==
    [hits |-> hits, total |-> Len(list), count |-> Len(hits)]

\* the result object built after the with block
MakeResult(kind, hits, list) ==
    [hits |-> IF kind \in {"port", "sub"} THEN Sorted(kind, hits) ELSE hits,
     total |-> Len(list),
     count |-> Len(hits)]

\* mutant of AllYielded: the loop stops at the first completed future
FirstYielded == \E i \in 1..Len(fut) : fut[i] = "yielded"

\* the for loop over as_completed(futures) ends when every future was yielded
AllYielded == \A i \in 1..Len(fut) : fut[i] = "yielded"

\* as_completed is exhausted, the with block shuts the pool down, scan returns
Return ==
    /\ pc = "collecting"
    /\ AllYielded
    /\ result' = MakeResult(scanner, found, cands)
    /\ pc' = "returned"
    /\ pool' = Shutdown(pool)
    /\ UNCHANGED <<scanner, threads, timeout, given, arg, env, cands, fut, ret,
                   probes, found, run, prev, pidx, yidx>>
    /\ UNCHANGED otherVars

\* Ctrl-C while scan waits in as_completed: KeyboardInterrupt is raised in
\* the collecting thread and the with block starts to exit
Interrupt ==
    /\ pc = "collecting"
    /\ pc' = "interrupted"
    /\ UNCHANGED <<pool, scanner, threads, timeout, given, arg, env, cands, fut, ret,
                   probes, found, result, run, prev, pidx, yidx>>
    /\ UNCHANGED otherVars

\* ThreadPoolExecutor.__exit__ has joined the workers (every queued work
\* item has run); the KeyboardInterrupt leaves scan, no result is built
Unwind ==
    /\ pc = "interrupted"
    /\ \A i \in 1..Len(fut) : fut[i] \in {"finished", "yielded"}
    /\ pc' = "cancelled"
    /\ pool' = Shutdown(pool)
    /\ UNCHANGED <<scanner, threads, timeout, given, arg, env, cands, fut, ret,
                   probes, found, result, run, prev, pidx, yidx>>
    /\ UNCHANGED otherVars

\* ---------------------------------------------------- SQLi / XSS scanners
\* the first entry of ERROR_PATTERNS, in list order, that matches the body
\* mutant of FirstPattern: only the first entry of the list is tried
OnlyFirstPattern(errs, k) ==
    IF ERROR_PATTERNS[1] \in errs THEN Some(ERROR_PATTERNS[1]) ELSE None

RECURSIVE FirstPattern(_, _)
FirstPattern(errs, k) ==
    IF k > Len(ERROR_PATTERNS) THEN None
    ELSE IF ERROR_PATTERNS[k] \in errs THEN Some(ERROR_PATTERNS[k])
    ELSE FirstPattern(errs, k + 1)

Vulnerability(param, payload, evidence) ==
    [parameter |-> param, payload |-> payload, evidence |-> evidence]

\* SQLiScanner._test_payload
sqli_test_payload(param, payload) ==
    LET o == env[<<param, payload>>]
        m == FirstPattern(o.errs, 1) IN
    IF o.res = "raise" THEN None
    ELSE IF m.some THEN Some(Vulnerability(param, payload, m.val))
    ELSE None

\* XSSScanner._test_payload
xss_test_payload(param, payload) ==
    LET o == env[<<param, payload>>] IN
    IF o.res = "raise" THEN None
    ELSE IF o.echo THEN Some(Vulnerability(param, payload, "reflected"))
    ELSE None

test_payload(kind, param, payload) ==
    IF kind = "sqli" THEN sqli_test_payload(param, payload)
    ELSE xss_test_payload(param, payload)

\* scan(): no parameters -> return with a warning; else enter the loops
VulnScan ==
    /\ pc = "idle"
    /\ scanner \in VulnKinds
    /\ cands' = arg
    /\ found' = <<>>
    /\ probes' = <<>>
    /\ IF arg = <<>>
       THEN /\ pc' = "returned"
            /\ result' = [hits |-> <<>>, total |-> 0, count |-> 0]
            /\ UNCHANGED <<pidx, yidx>>
       ELSE /\ pc' = "testing"
            /\ pidx' = 1
            /\ yidx' = 1
            /\ UNCHANGED result
    /\ UNCHANGED <<pool, scanner, threads, timeout, given, arg, env, fut, ret, run, prev>>
    /\ UNCHANGED otherVars

\* mutant of AfterHit: no break, the next payload of the same parameter
AfterHitNoBreak(p, y) ==
    IF y < Len(PAYLOADS(scanner)) THEN <<p, y + 1>> ELSE <<p + 1, 1>>

\* mutant of AfterHit: a hit ends the whole scan
AfterHitStop(p, y) == <<Len(cands) + 1, 1>>

\* the position after a hit: break, next parameter
AfterHit(p, y) == <<p + 1, 1>>

\* one iteration of the inner loop: vuln = self._test_payload(...);
\* if vuln: append, break
TestPayload ==
    /\ pc = "testing"
    /\ pidx <= Len(cands)
    /\ LET param == cands[pidx]
           payload == PAYLOADS(scanner)[yidx]
           vuln == test_payload(scanner, param, payload)
           nxt == IF vuln.some THEN AfterHit(pidx, yidx)
                  ELSE IF yidx < Len(PAYLOADS(scanner)) THEN <<pidx, yidx + 1>>
                  ELSE <<pidx + 1, 1>> IN
        /\ probes' = Append(probes, <<param, payload>>)
        /\ found' = IF vuln.some THEN Append(found, vuln.val) ELSE found
        /\ pc' = IF vuln.exc THEN "raised" ELSE pc
        /\ pidx' = nxt[1]
        /\ yidx' = nxt[2]
    /\ UNCHANGED <<pool, scanner, threads, timeout, given, arg, env, cands, fut,
                   ret, result, run, prev>>
    /\ UNCHANGED otherVars

\* the outer loop is exhausted: return result
VulnReturn ==
    /\ pc = "testing"
    /\ pidx > Len(cands)
    /\ pc' = "returned"
    /\ result' = [hits |-> found, total |-> Len(cands), count |-> Len(found)]
    /\ UNCHANGED <<pool, scanner, threads, timeout, given, arg, env, cands, fut, ret,
                   probes, found, run, prev, pidx, yidx>>
    /\ UNCHANGED otherVars

\* the caller keeps the first result and calls scan again with the same
\* arguments against the same network
Again ==
    /\ pc = "returned"
    /\ run = 1
    /\ prev' = result
    /\ run' = 2
    /\ pc' = "idle"
    /\ cands' = <<>>
    /\ fut' = <<>>
    /\ ret' = <<>>
    /\ probes' = <<>>
    /\ found' = <<>>
    /\ result' = NoResult
    /\ pidx' = 0
    /\ yidx' = 0
    /\ UNCHANGED <<pool, scanner, threads, timeout, given, arg, env>>
    /\ UNCHANGED otherVars

Next ==
    \/ Scan
    \/ WorkerStart
    \/ \E i \in 1..Len(fut) : WorkerFinish(i)
    \/ \E i \in 1..Len(fut) : Collect(i)
    \/ Return
    \/ Interrupt
    \/ Unwind
    \/ VulnScan
    \/ TestPayload
    \/ VulnReturn
    \/ Again

vars == <<scanVars, otherVars>>

Spec == Init /\ [][Next]_vars

\* no scanner call is in progress
NoScan ==
    /\ scanner = "none"
    /\ threads = 0
    /\ timeout = 0
    /\ given = FALSE
    /\ arg = <<>>
    /\ env = <<>>
    /\ pc = "off"
    /\ cands = <<>>
    /\ fut = <<>>
    /\ ret = <<>>
    /\ probes = <<>>
    /\ found = <<>>
    /\ result = NoResult
    /\ run = 0
    /\ prev = NoResult
    /\ pidx = 0
    /\ yidx = 0
    /\ pool = [made |-> 0, open |-> FALSE]

\* ------------------------------------------ the other components at rest
\* everything but the state of TechFingerprint.scan
besidesTech ==
    <<scanVars, hashVars, carveVars, duoVars, crackVars, injectVars, sessVars, pluginVars, engineVars>>
NoneBesidesTech ==
    /\ NoScan
    /\ NoHash
    /\ NoCarve
    /\ NoDuo
    /\ NoCrack
    /\ NoInject
    /\ NoSess
    /\ NoPlugin
    /\ NoEngine
\* everything but the state of the hash cracker
besidesCrack ==
    <<scanVars, hashVars, carveVars, duoVars, techVars, injectVars, sessVars, pluginVars, engineVars>>
NoneBesidesCrack ==
    /\ NoScan
    /\ NoHash
    /\ NoCarve
    /\ NoDuo
    /\ NoTech
    /\ NoInject
    /\ NoSess
    /\ NoPlugin
    /\ NoEngine
\* everything but the state of the payload injection of the SQLi and XSS scanners
besidesInject ==
    <<scanVars, hashVars, carveVars, duoVars, techVars, crackVars, sessVars, pluginVars, engineVars>>
NoneBesidesInject ==
    /\ NoScan
    /\ NoHash
    /\ NoCarve
    /\ NoDuo
    /\ NoTech
    /\ NoCrack
    /\ NoSess
    /\ NoPlugin
    /\ NoEngine
\* everything but the state of the session manager
besidesSess ==
    <<scanVars, hashVars, carveVars, duoVars, techVars, crackVars, injectVars, pluginVars, engineVars>>
NoneBesidesSess ==
    /\ NoScan
    /\ NoHash
    /\ NoCarve
    /\ NoDuo
    /\ NoTech
    /\ NoCrack
    /\ NoInject
    /\ NoPlugin
    /\ NoEngine
\* everything but the state of the plugin manager
besidesPlugin ==
    <<scanVars, hashVars, carveVars, duoVars, techVars, crackVars, injectVars, sessVars, engineVars>>
NoneBesidesPlugin ==
    /\ NoScan
    /\ NoHash
    /\ NoCarve
    /\ NoDuo
    /\ NoTech
    /\ NoCrack
    /\ NoInject
    /\ NoSess
    /\ NoEngine
\* everything but the state of the engine's main loop
besidesEngine ==
    <<scanVars, hashVars, carveVars, duoVars, techVars, crackVars, injectVars, sessVars, pluginVars>>
NoneBesidesEngine ==
    /\ NoScan
    /\ NoHash
    /\ NoCarve
    /\ NoDuo
    /\ NoTech
    /\ NoCrack
    /\ NoInject
    /\ NoSess
    /\ NoPlugin
\* ------------------------------------------------------ (components at rest)

\* ------------------------------------------------- HashIdentifier.identify
\* strings are sequences of code points: '$' 36, '2' 50, 'a' 97, 'b' 98,
\* 'y' 121, newline 10
HashTypes == {"MD5", "SHA1", "SHA256", "SHA512", "NTLM", "BCRYPT"}

\* [a-fA-F0-9]
HexChars == (48..57) \cup (65..70) \cup (97..102)

\* PATTERNS in insertion order, each (expected_len, pattern); a pattern is
\* ^[a-fA-F0-9]{count}$ or ^\$2[ayb]\$.+
HASH_PATTERNS ==
    << [type |-> "MD5", len |-> 32, re |-> [class |-> "hex", count |-> 32]],
       [type |-> "SHA1", len |-> 40, re |-> [class |-> "hex", count |-> 40]],
       [type |-> "SHA256", len |-> 64, re |-> [class |-> "hex", count |-> 64]],
       [type |-> "SHA512", len |-> 128,
        re |-> [class |-> "hex", count |-> 128]],
       [type |-> "NTLM", len |-> 32, re |-> [class |-> "hex", count |-> 32]],
       [type |-> "BCRYPT", len |-> 60, re |-> [class |-> "bcrypt", count |-> 0]] >>

\* the inputs: a length, a fill character, a prefix and a last character
HashLens == {0, 31, 32, 33, 40, 59, 60, 61, 64, 128}
FillChars == {97, 70, 57, 103, 10}
Heads == {<<>>, <<36, 50, 97, 36>>, <<36, 50, 121, 36>>, <<36, 50, 98, 36>>,
          <<36, 50, 120, 36>>, <<36, 50, 97>>}
Lasts == {0, 103, 10}
HashInput(len, fill, head, last) ==
    [i \in 1..len |->
        IF i <= Len(head) THEN head[i]
        ELSE IF i = len /\ last # 0 THEN last
        ELSE fill]
HashInputs ==
    {HashInput(len, fill, head, last) :
        len \in HashLens, fill \in FillChars, head \in Heads, last \in Lasts}

\* [a-fA-F0-9]{n} matched at the start of s
HexRun(s, n) == Len(s) >= n /\ \A i \in 1..n : s[i] \in HexChars
\* $ after n characters: the end of s, or just before a final newline
AtDollar(s, n) == n = Len(s) \/ (n + 1 = Len(s) /\ s[n + 1] = 10)
\* re.match(pattern, s)
ReMatch(re, s) ==
    CASE re.class = "hex" -> HexRun(s, re.count) /\ AtDollar(s, re.count)
      [] re.class = "bcrypt" ->
            /\ Len(s) >= 5
            /\ s[1] = 36
            /\ s[2] = 50
            /\ s[3] \in {97, 121, 98}
            /\ s[4] = 36
            /\ s[5] # 10

\* mutant of AddType: only the first matching type is kept
FirstMatchOnly(types, t) == IF types = <<>> THEN <<t>> ELSE types

\* possible_types.append(hash_type)
AddType(types, t) == Append(types, t)

InitHash ==
    /\ hash_value \in HashInputs
    /\ possible_types = <<>>
    /\ hidx = 0
    /\ NoScan
    /\ NoCarve
    /\ NoDuo
    /\ NoNew

\* identify is entered: possible_types = []
Identify ==
    /\ hidx = 0
    /\ possible_types' = <<>>
    /\ hidx' = 1
    /\ UNCHANGED <<hash_value, scanVars, carveVars, duoVars, newVars>>

\* one turn of the loop over PATTERNS.items()
IdentifyStep ==
    /\ hidx \in 1..Len(HASH_PATTERNS)
    /\ LET p == HASH_PATTERNS[hidx]
       IN  possible_types' =
               IF Len(hash_value) = p.len /\ ReMatch(p.re, hash_value)
               THEN AddType(possible_types, p.type)
               ELSE possible_types
    /\ hidx' = hidx + 1
    /\ UNCHANGED <<hash_value, scanVars, carveVars, duoVars, newVars>>

\* return possible_types
IdentifyReturn ==
    /\ hidx = Len(HASH_PATTERNS) + 1
    /\ hidx' = hidx + 1
    /\ UNCHANGED <<hash_value, possible_types, scanVars, carveVars, duoVars, newVars>>

NextHash ==
    \/ Identify
    \/ IdentifyStep
    \/ IdentifyReturn

SpecHash == InitHash /\ [][NextHash]_vars

\* --------------------------------------------------------- FileCarver.carve
\* the longest data the model reads
MaxData == 7
\* the size cap of a unit without footer (10*1024*1024 in the code), scaled
\* so that data longer than the cap exist in the model
MaxCarve == 4

\* bytes are 0..255; footer <<>> stands for None
FILE_SIGNATURES ==
    [t \in {"jpeg", "png", "pdf", "zip", "exe", "elf"} |->
        CASE t = "jpeg" -> [header |-> <<255, 216, 255>>, footer |-> <<255, 217>>]
          [] t = "png" ->
                [header |-> <<137, 80, 78, 71, 13, 10, 26, 10>>,
                 footer |-> <<0, 0, 0, 0, 73, 69, 78, 68, 174, 66, 96, 130>>]
          [] t = "pdf" ->
                [header |-> <<37, 80, 68, 70>>, footer |-> <<37, 37, 69, 79, 70>>]
          [] t = "zip" ->
                [header |-> <<80, 75, 3, 4>>, footer |-> <<80, 75, 5, 6>>]
          [] t = "exe" -> [header |-> <<77, 90>>, footer |-> <<>>]
          [] t = "elf" -> [header |-> <<127, 69, 76, 70>>, footer |-> <<>>]]

\* list(self.FILE_SIGNATURES.keys())
AllFileTypes == <<"jpeg", "png", "pdf", "zip", "exe", "elf">>

\* the file_types arguments tried; <<>> stands for None and for []
FileTypeLists == {<<>>, <<"jpeg">>, <<"exe", "jpeg">>, <<"doc", "exe">>}

\* the bytes JPEG and EXE signatures are made of, and a zero byte
JpegBytes == {255, 216, 217}
ExeBytes == {77, 90, 0}
DataUniverse ==
    SeqsUpTo(JpegBytes, MaxData)
        \cup SeqsUpTo(ExeBytes, MaxData)
        \cup {<<77, 90>> \o d : d \in SeqsUpTo(JpegBytes, MaxData - 2)}

\* file_types = file_types or list(self.FILE_SIGNATURES.keys())
CarveTypes(list) == IF list = <<>> THEN AllFileTypes ELSE list

\* data.find(sub, from): offsets count from 0
RECURSIVE Find(_, _, _)
Find(d, sub, from) ==
    IF from + Len(sub) > Len(d) THEN 0 - 1
    ELSE IF \A j \in 1..Len(sub) : d[from + j] = sub[j] THEN from
    ELSE Find(d, sub, from + 1)

\* mutant of CapEnd: a unit without footer runs to the end of the data
NoCap(pos, n) == n

\* min(pos + 10*1024*1024, len(data))
CapEnd(pos, n) == IF pos + MaxCarve <= n THEN pos + MaxCarve ELSE n

\* the end of the unit whose header is at pos
UnitEnd(d, sig, pos) ==
    IF sig.footer # <<>>
    THEN LET end == Find(d, sig.footer, pos + Len(sig.header))
         IN  IF end = 0 - 1 THEN CapEnd(pos, Len(d))
             ELSE end + Len(sig.footer)
    ELSE CapEnd(pos, Len(d))

\* mutant of NextStart: the search resumes at the header just carved
NextStartAtPos(pos, end) == pos

\* mutant of NextStart: the search resumes one byte after the header found
NextStartAfterPos(pos, end) == pos + 1

\* start = end
NextStart(pos, end) == end

InitCarve ==
    /\ data \in DataUniverse
    /\ file_types \in FileTypeLists
    /\ ftidx = 0
    /\ start = 0
    /\ carved = <<>>
    /\ cpc = "idle"
    /\ NoScan
    /\ NoHash
    /\ NoDuo
    /\ NoNew

\* carve is entered: the type list is defaulted and the file is read
Carve ==
    /\ cpc = "idle"
    /\ cpc' = "types"
    /\ ftidx' = 1
    /\ UNCHANGED <<data, file_types, start, carved, scanVars, hashVars, duoVars, newVars>>

\* for file_type in file_types: unknown names are skipped
NextType ==
    /\ cpc = "types"
    /\ ftidx <= Len(CarveTypes(file_types))
    /\ IF CarveTypes(file_types)[ftidx] \notin DOMAIN FILE_SIGNATURES
       THEN /\ ftidx' = ftidx + 1
            /\ UNCHANGED <<start, cpc>>
       ELSE /\ start' = 0
            /\ cpc' = "scan"
            /\ UNCHANGED ftidx
    /\ UNCHANGED <<data, file_types, carved, scanVars, hashVars, duoVars, newVars>>

\* one turn of the while loop: find the next header, write the unit
CarveStep ==
    /\ cpc = "scan"
    /\ LET file_type == CarveTypes(file_types)[ftidx]
           sig == FILE_SIGNATURES[file_type]
           pos == Find(data, sig.header, start)
       IN  IF pos = 0 - 1
           THEN /\ cpc' = "types"
                /\ ftidx' = ftidx + 1
                /\ UNCHANGED <<start, carved>>
           ELSE LET end == UnitEnd(data, sig, pos)
                IN  /\ carved' = Append(carved,
                            [type |-> file_type, pos |-> pos, end |-> end])
                    /\ start' = NextStart(pos, end)
                    /\ UNCHANGED <<cpc, ftidx>>
    /\ UNCHANGED <<data, file_types, scanVars, hashVars, duoVars, newVars>>

\* return carved_files
CarveReturn ==
    /\ cpc = "types"
    /\ ftidx > Len(CarveTypes(file_types))
    /\ cpc' = "done"
    /\ UNCHANGED <<data, file_types, ftidx, start, carved, scanVars, hashVars,
                   duoVars, newVars>>

NextCarve ==
    \/ Carve
    \/ NextType
    \/ CarveStep
    \/ CarveReturn

SpecCarve == InitCarve /\ [][NextCarve]_vars

\* ------------------------------------- two scan calls on one scanner object
\* the longest candidate list of each of the two calls
MaxDuoLen == 1

\* the two calls; call k scans target k
Calls == {1, 2}
DuoKinds == {"port", "dir"}
DuoUniverse(kind) == IF kind = "port" THEN {22, 80} ELSE PathUniverse
\* the non-empty lists a call may be given
DuoLists(kind) == SeqsUpTo(DuoUniverse(kind), MaxDuoLen) \ {<<>>}

\* check_port / check_path of call k: the closure reads the call's own
\* target; a TCP connect that succeeds returns the port, a 200 answer
\* returns (path, 200), anything else returns None
DuoProbe(k, c) ==
    IF denv[<<k, c>>] = "hit"
    THEN Some(IF dkind = "port" THEN c ELSE <<c, 200>>)
    ELSE None

\* mutant of HitList: every call appends to one list kept on the object
SharedList(k) == 1

\* open_ports = [] / found = []: a list local to the call
HitList(k) == k

DuoRunning(k) == {i \in 1..Len(dcall[k].fut) : dcall[k].fut[i] = "running"}

InitDuo ==
    /\ dkind \in DuoKinds
    /\ dthreads \in 1..MaxThreads
    /\ denv \in [Calls \X DuoUniverse(dkind) -> {"hit", "miss"}]
    /\ dcall \in [Calls ->
            {[arg |-> l, pc |-> "idle", cands |-> <<>>, fut |-> <<>>,
              ret |-> <<>>, result |-> NoResult, overlapped |-> FALSE] :
                l \in DuoLists(dkind)}]
    /\ dlists = [k \in Calls |-> <<>>]
    /\ NoScan
    /\ NoHash
    /\ NoCarve
    /\ NoNew

\* call k enters scan: a new hit list, a new executor, all candidates
\* submitted; `overlapped` records that the other call was in progress
DuoScan(k) ==
    /\ dcall[k].pc = "idle"
    /\ dcall' = [dcall EXCEPT ![k] =
            [@ EXCEPT !.pc = "collecting",
                      !.cands = dcall[k].arg,
                      !.fut = [i \in 1..Len(dcall[k].arg) |-> "pending"],
                      !.ret = [i \in 1..Len(dcall[k].arg) |-> None],
                      !.overlapped =
                          \E o \in Calls \ {k} : dcall[o].pc = "collecting"]]
    /\ dlists' = [dlists EXCEPT ![HitList(k)] = <<>>]
    /\ UNCHANGED <<dkind, dthreads, denv, scanVars, hashVars, carveVars, newVars>>

\* a free worker of call k's executor takes its oldest queued work item
DuoStart(k) ==
    /\ dcall[k].pc = "collecting"
    /\ Cardinality(DuoRunning(k)) < dthreads
    /\ \E i \in 1..Len(dcall[k].fut) :
        /\ dcall[k].fut[i] = "pending"
        /\ \A j \in 1..(i - 1) : dcall[k].fut[j] # "pending"
        /\ dcall' = [dcall EXCEPT ![k].fut[i] = "running"]
    /\ UNCHANGED <<dkind, dthreads, denv, dlists, scanVars, hashVars, carveVars, newVars>>

\* the probe of future i of call k returns
DuoFinish(k, i) ==
    /\ dcall[k].pc = "collecting"
    /\ dcall[k].fut[i] = "running"
    /\ dcall' = [dcall EXCEPT ![k].fut[i] = "finished",
                              ![k].ret[i] = DuoProbe(k, dcall[k].cands[i])]
    /\ UNCHANGED <<dkind, dthreads, denv, dlists, scanVars, hashVars, carveVars, newVars>>

\* the thread of call k takes a completed future and appends its hit
DuoCollect(k, i) ==
    /\ dcall[k].pc = "collecting"
    /\ dcall[k].fut[i] = "finished"
    /\ dcall' = [dcall EXCEPT ![k].fut[i] = "yielded"]
    /\ dlists' =
        IF Truthy(dkind, dcall[k].ret[i])
        THEN [dlists EXCEPT ![HitList(k)] = Append(@, dcall[k].ret[i].val)]
        ELSE dlists
    /\ UNCHANGED <<dkind, dthreads, denv, scanVars, hashVars, carveVars, newVars>>

\* call k leaves the with block and returns its result
DuoReturn(k) ==
    /\ dcall[k].pc = "collecting"
    /\ \A i \in 1..Len(dcall[k].fut) : dcall[k].fut[i] = "yielded"
    /\ dcall' = [dcall EXCEPT
            ![k].pc = "returned",
            ![k].result = MakeResult(dkind, dlists[HitList(k)], dcall[k].cands)]
    /\ UNCHANGED <<dkind, dthreads, denv, dlists, scanVars, hashVars, carveVars, newVars>>

NextDuo ==
    \/ \E k \in Calls : DuoScan(k)
    \/ \E k \in Calls : DuoStart(k)
    \/ \E k \in Calls : \E i \in 1..Len(dcall[k].fut) : DuoFinish(k, i)
    \/ \E k \in Calls : \E i \in 1..Len(dcall[k].fut) : DuoCollect(k, i)
    \/ \E k \in Calls : DuoReturn(k)

SpecDuo == InitDuo /\ [][NextDuo]_vars

\* ------------------------------------------------------ TechFingerprint.scan
\* strings are sequences of code points; the comments give the text
\* "Flask", "Express", "Rails"
Flask == <<70, 108, 97, 115, 107>>
Express == <<69, 120, 112, 114, 101, 115, 115>>
Rails == <<82, 97, 105, 108, 115>>
\* three consecutive entries of TECH_SIGNATURES, in dict order:
\* 'Flask': ['Werkzeug'], 'Express': ['X-Powered-By: Express'],
\* 'Rails': ['X-Runtime', 'csrf-token']
TECH_SIGNATURES ==
    << [tech |-> Flask, signatures |-> << <<87, 101, 114, 107, 122, 101, 117, 103>> >>],
       [tech |-> Express,
        signatures |-> << <<88, 45, 80, 111, 119, 101, 114, 101, 100, 45, 66, 121, 58, 32>>
                            \o Express >>],
       [tech |-> Rails,
        signatures |-> << <<88, 45, 82, 117, 110, 116, 105, 109, 101>>,
                          <<99, 115, 114, 102, 45, 116, 111, 107, 101, 110>> >>] >>

\* the response headers a server may send, in this order when sent:
\* X-Powered-By: Express, X-Runtime: 1, Server: nginx
HeaderUniverse ==
    << << <<88, 45, 80, 111, 119, 101, 114, 101, 100, 45, 66, 121>>, Express >>,
       << <<88, 45, 82, 117, 110, 116, 105, 109, 101>>, <<49>> >>,
       << <<83, 101, 114, 118, 101, 114>>, <<110, 103, 105, 110, 120>> >> >>
\* the subsequence of HeaderUniverse at the positions in S
RECURSIVE HeadersAt(_, _)
HeadersAt(S, k) ==
    IF k > Len(HeaderUniverse) THEN <<>>
    ELSE (IF k \in S THEN <<HeaderUniverse[k]>> ELSE <<>>) \o HeadersAt(S, k + 1)
HeaderSets == {HeadersAt(S, 1) : S \in SUBSET (1..Len(HeaderUniverse))}
\* the response bodies: "", "Werkzeug", "csrf-token",
\* "x-powered-by: express", "abc"
BodyUniverse ==
    { <<>>,
      <<87, 101, 114, 107, 122, 101, 117, 103>>,
      <<99, 115, 114, 102, 45, 116, 111, 107, 101, 110>>,
      <<120, 45, 112, 111, 119, 101, 114, 101, 100, 45, 98, 121, 58, 32, 101, 120, 112, 114, 101, 115, 115>>,
      <<97, 98, 99>> }
\* what requests.get does: a response, or an exception
TechResponses ==
    [res : {"ret", "raise"}, body : BodyUniverse, headers : HeaderSets]

\* str.lower() on ASCII
Lower(s) == [i \in 1..Len(s) |-> IF s[i] \in 65..90 THEN s[i] + 32 ELSE s[i]]
\* needle in hay
Contains(hay, needle) ==
    \E k \in 0..(Len(hay) - Len(needle)) :
        \A j \in 1..Len(needle) : hay[k + j] = needle[j]
\* repr of a str without quotes in it: 'text'
Repr(t) == <<39>> \o t \o <<39>>
\* the items of str(dict): 'name': 'value', separated by ", "
RECURSIVE DictItems(_)
DictItems(h) ==
    IF h = <<>> THEN <<>>
    ELSE Repr(h[1][1]) \o <<58, 32>> \o Repr(h[1][2])
            \o (IF Len(h) > 1 THEN <<44, 32>> ELSE <<>>) \o DictItems(Tail(h))
\* str(headers_info)
DictStr(h) == <<123>> \o DictItems(h) \o <<125>>

\* sig.lower() in content or sig.lower() in str(headers_info).lower()
SigFound(sig, body, headers) ==
    \/ Contains(Lower(body), Lower(sig))
    \/ Contains(Lower(DictStr(headers)), Lower(sig))

\* headers_info.get('Server', '')
ServerOf(h) ==
    LET S == {i \in 1..Len(h) : h[i][1] = HeaderUniverse[3][1]}
    IN  IF S = {} THEN <<>> ELSE h[CHOOSE i \in S : TRUE][2]

InitTech ==
    /\ tresp \in TechResponses
    /\ detected = <<>>
    /\ tidx = 0
    /\ tpc = "idle"
    /\ NoneBesidesTech

\* scan is entered and the page is requested; an exception returns the
\* failure result
TechScan ==
    /\ tpc = "idle"
    /\ detected' = <<>>
    /\ IF tresp.res = "raise"
       THEN tpc' = "failed" /\ UNCHANGED tidx
       ELSE tpc' = "signatures" /\ tidx' = 1
    /\ UNCHANGED <<tresp, besidesTech>>

\* one turn of the loop over TECH_SIGNATURES.items(): the inner loop stops
\* at the first signature found
TechStep ==
    /\ tpc = "signatures"
    /\ tidx <= Len(TECH_SIGNATURES)
    /\ LET t == TECH_SIGNATURES[tidx]
           hit == \E i \in 1..Len(t.signatures) :
                    SigFound(t.signatures[i], tresp.body, tresp.headers)
       IN  detected' =
               IF hit /\ t.tech \notin Range(detected)
               THEN Append(detected, t.tech)
               ELSE detected
    /\ tidx' = tidx + 1
    /\ tpc' = IF tidx = Len(TECH_SIGNATURES) THEN "server" ELSE tpc
    /\ UNCHANGED <<tresp, besidesTech>>

\* if server: detected.append(f"Server: {server}"), then the result is
\* returned
TechReturn ==
    /\ tpc = "server"
    /\ detected' =
        IF ServerOf(tresp.headers) # <<>>
        THEN Append(detected,
                <<83, 101, 114, 118, 101, 114, 58, 32>> \o ServerOf(tresp.headers))
        ELSE detected
    /\ tpc' = "returned"
    /\ UNCHANGED <<tresp, tidx, besidesTech>>

NextTech ==
    \/ TechScan
    \/ TechStep
    \/ TechReturn

SpecTech == InitTech /\ [][NextTech]_vars

\* ------------------------------------- HashCracker and CryptoAnalyzer.crack_hash
\* the longest plaintext brute_force is asked for
MaxPlainLen == 2
\* the longest wordlist
MaxWords == 2

\* the charset argument: "ab"
CHARSET == <<97, 98>>

\* itertools.product(charset, repeat=n) joined to strings, in its order
RECURSIVE Product(_, _)
Product(cs, n) ==
    IF n = 0 THEN << <<>> >>
    ELSE LET rest == Product(cs, n - 1)
             F[i \in 0..Len(cs)] ==
                IF i = 0 THEN <<>>
                ELSE F[i - 1] \o [j \in 1..Len(rest) |-> <<cs[i]>> \o rest[j]]
         IN  F[Len(cs)]

\* the attempts of brute_force, length by length from min_len to max_len;
\* product raises ValueError for a negative repeat
RECURSIVE Attempts(_, _)
Attempts(min_len, max_len) ==
    IF min_len > max_len THEN <<>>
    ELSE IF min_len < 0 THEN << [bad |-> TRUE, text |-> <<>>] >>
    ELSE [j \in 1..Len(Product(CHARSET, min_len)) |->
                [bad |-> FALSE, text |-> Product(CHARSET, min_len)[j]]]
            \o Attempts(min_len + 1, max_len)

\* every plaintext the model can test
Plaintexts == UNION {Range(Product(CHARSET, n)) : n \in 0..MaxPlainLen}

\* which plaintexts hash to the target: none, one, or two
MatchingSets == {{}} \cup {{q, r} : q, r \in Plaintexts}

\* lines of a wordlist file: "a\n", " b \n"
Lines == {<<97, 10>>, <<32, 98, 32, 10>>}
\* the wordlist files: lists of lines, or a path that cannot be opened
Wordlists ==
    [readable : {TRUE}, lines : SeqsUpTo(Lines, MaxWords)]
        \cup [readable : {FALSE}, lines : {<<>>}]

\* str.strip(): leading and trailing blanks and newlines removed
RECURSIVE Strip(_)
Strip(t) ==
    IF t = <<>> THEN t
    ELSE IF t[1] \in {32, 10} THEN Strip(Tail(t))
    ELSE IF t[Len(t)] \in {32, 10} THEN Strip(SubSeq(t, 1, Len(t) - 1))
    ELSE t

\* the hash_value arguments: 32 'A', 40 'a', a 60-character bcrypt string,
\* 32 'g'
Targets ==
    {HashInput(32, 65, <<>>, 0), HashInput(40, 97, <<>>, 0),
     HashInput(60, 97, <<36, 50, 97, 36>>, 0), HashInput(32, 103, <<>>, 0)}

\* the length of a hexdigest
DigestLen(t) ==
    CASE t \in {"MD5", "NTLM"} -> 32
      [] t = "SHA1" -> 40
      [] t = "SHA256" -> 64
      [] t = "SHA512" -> 128
\* hashlib's digest of a plaintext: the plaintexts in `matching` hash to
\* 'aaa...', every other plaintext to '000...'
DigestOf(t, plain, matching) ==
    [i \in 1..DigestLen(t) |-> IF plain \in matching THEN 97 ELSE 48]

\* HashCracker._hash_string: NTLM needs hashlib.new('md4'), which raises
\* ValueError where OpenSSL does not provide it; bcrypt falls through to ""
HashString(plain, t) ==
    CASE t \in {"MD5", "SHA1", "SHA256", "SHA512"} ->
            Some(DigestOf(t, plain, cenv.matching))
      [] t = "NTLM" ->
            IF cenv.md4 THEN Some(DigestOf(t, plain, cenv.matching)) ELSE Raised
      [] OTHER -> Some(<<>>)

\* HashIdentifier.identify as one function: the loop of IdentifyStep
RECURSIVE IdentifyFrom(_, _, _)
IdentifyFrom(s, k, acc) ==
    IF k > Len(HASH_PATTERNS) THEN acc
    ELSE IdentifyFrom(s, k + 1,
            IF Len(s) = HASH_PATTERNS[k].len /\ ReMatch(HASH_PATTERNS[k].re, s)
            THEN AddType(acc, HASH_PATTERNS[k].type)
            ELSE acc)

\* mutant of FirstType: the last identified type is used
LastType(types) == types[Len(types)]

\* hash_type = types[0]
FirstType(types) == types[1]

\* the calls: crack_hash(hash_value, method, ...), and the two attacks
\* called directly with a hash type
CrackCalls ==
    [entry : {"crack_hash"}, method : {"bruteforce"}, hash_value : Targets,
     hash_type : {"none"}, min_len : 0..1, max_len : (MaxPlainLen - 1)..MaxPlainLen,
     wordlist : {[readable |-> FALSE, lines |-> <<>>]}]
    \cup
    [entry : {"crack_hash"}, method : {"dictionary", "rainbow"},
     hash_value : Targets, hash_type : {"none"}, min_len : {1},
     max_len : {MaxPlainLen}, wordlist : Wordlists]
    \cup
    [entry : {"brute_force"}, method : {"bruteforce"},
     hash_value : {t \in Targets : Len(t) = 32},
     hash_type : {"MD5", "NTLM", "BCRYPT"},
     min_len : (0 - 1)..1,
     max_len : (MaxPlainLen - 1)..MaxPlainLen,
     wordlist : {[readable |-> FALSE, lines |-> <<>>]}]
    \cup
    [entry : {"dictionary_attack"}, method : {"dictionary"},
     hash_value : {t \in Targets : Len(t) = 32}, hash_type : {"MD5", "NTLM"},
     min_len : {1}, max_len : {MaxPlainLen}, wordlist : Wordlists]

InitCrack ==
    /\ ccall \in CrackCalls
    /\ cenv \in [md4 : BOOLEAN, matching : MatchingSets]
    /\ ctype = "none"
    /\ cidx = 0
    /\ tested = <<>>
    /\ tried = {}
    /\ cret = None
    /\ kpc = "idle"
    /\ NoneBesidesCrack

\* the call is entered; crack_hash identifies the hash and hands its first
\* type to the attack named by method
CrackCall ==
    /\ kpc = "idle"
    /\ cidx' = 1
    /\ IF ccall.entry = "crack_hash"
       THEN LET types == IdentifyFrom(ccall.hash_value, 1, <<>>)
            IN  IF types = <<>>
                THEN kpc' = "returned" /\ UNCHANGED ctype
                ELSE /\ ctype' = FirstType(types)
                     /\ kpc' = CASE ccall.method = "dictionary" -> "dict"
                                 [] ccall.method = "bruteforce" -> "brute"
                                 [] OTHER -> "returned"
       ELSE /\ ctype' = ccall.hash_type
            /\ kpc' = IF ccall.entry = "brute_force" THEN "brute" ELSE "dict"
    /\ UNCHANGED <<ccall, cenv, tested, tried, cret, besidesCrack>>

\* brute_force: the next attempt is hashed and compared with
\* hash_value.lower(); an exception leaves the function
BruteStep ==
    /\ kpc = "brute"
    /\ LET A == Attempts(ccall.min_len, ccall.max_len)
       IN  IF cidx > Len(A)
           THEN /\ kpc' = "returned"
                /\ cret' = None
                /\ UNCHANGED <<cidx, tested, tried>>
           ELSE IF A[cidx].bad
           THEN /\ kpc' = "raised"
                /\ cret' = Raised
                /\ UNCHANGED <<cidx, tested, tried>>
           ELSE LET h == HashString(A[cidx].text, ctype)
                IN  /\ tested' = Append(tested, A[cidx].text)
                    /\ tried' = tried \cup {ctype}
                    /\ IF h.exc
                       THEN kpc' = "raised" /\ cret' = Raised /\ UNCHANGED cidx
                       ELSE IF h.val = Lower(ccall.hash_value)
                       THEN /\ kpc' = "returned"
                            /\ cret' = Some(A[cidx].text)
                            /\ UNCHANGED cidx
                       ELSE /\ cidx' = cidx + 1
                            /\ UNCHANGED <<kpc, cret>>
    /\ UNCHANGED <<ccall, cenv, ctype, besidesCrack>>

\* dictionary_attack: the next line is stripped, hashed and compared; any
\* exception (the file cannot be opened, the hash cannot be computed) is
\* printed and None is returned
DictStep ==
    /\ kpc = "dict"
    /\ LET W == ccall.wordlist.lines
       IN  IF ~ccall.wordlist.readable \/ cidx > Len(W)
           THEN /\ kpc' = "returned"
                /\ cret' = None
                /\ UNCHANGED <<cidx, tested, tried>>
           ELSE LET word == Strip(W[cidx])
                    h == HashString(word, ctype)
                IN  /\ tested' = Append(tested, word)
                    /\ tried' = tried \cup {ctype}
                    /\ IF h.exc
                       THEN kpc' = "returned" /\ cret' = None /\ UNCHANGED cidx
                       ELSE IF h.val = Lower(ccall.hash_value)
                       THEN /\ kpc' = "returned"
                            /\ cret' = Some(word)
                            /\ UNCHANGED cidx
                       ELSE /\ cidx' = cidx + 1
                            /\ UNCHANGED <<kpc, cret>>
    /\ UNCHANGED <<ccall, cenv, ctype, besidesCrack>>

NextCrack ==
    \/ CrackCall
    \/ BruteStep
    \/ DictStep

SpecCrack == InitCrack /\ [][NextCrack]_vars

\* ------------------------------------- SQLiScanner / XSSScanner._test_payload
\* A parameter value is the list of its pieces, the original text and the
\* payloads appended to it: value + payload is Append(value, payload).

\* the values a query parameter comes with
ParamValues == {<<>>, <<"1">>}

\* query_params: the names in dict order and their values
InjectCalls ==
    {c \in [kind : VulnKinds, names : SeqsUpTo(ParamUniverse, 2),
            values : [ParamUniverse -> ParamValues]] :
        /\ \A i, j \in 1..Len(c.names) : i # j => c.names[i] # c.names[j]
        /\ \A n \in ParamUniverse \ Range(c.names) : c.values[n] = <<>>}

\* original_params.get(param, '')
Get(d, k) == IF k \in DOMAIN d THEN d[k] ELSE <<>>

\* the value put at param: the SQLi scanner appends the payload to the
\* original value, the XSS scanner replaces the value by the payload
Injected(kind, orig, param, payload) ==
    IF kind = "sqli" THEN Append(Get(orig, param), payload) ELSE <<payload>>

\* mutant of TestParams: no copy, test_params is the caller's dict itself
AliasedParams(kind, orig, param, payload) ==
    LET t == [n \in DOMAIN orig \cup {param} |->
                IF n = param THEN Injected(kind, orig, param, payload)
                ELSE orig[n]] IN
    [orig |-> t, test |-> t]

\* test_params = original_params.copy(); test_params[param] = ...: the two
\* dicts after the assignment
TestParams(kind, orig, param, payload) ==
    [orig |-> orig,
     test |-> [n \in DOMAIN orig \cup {param} |->
                IF n = param THEN Injected(kind, orig, param, payload)
                ELSE orig[n]]]

\* what a probe comes to: a vulnerability, none, or an exception, which
\* _test_payload swallows
ProbeOutcomes == {"hit", "miss", "raise"}

InitInject ==
    /\ NoneBesidesInject
    /\ icall \in InjectCalls
    /\ qparams = <<>>
    /\ isent = <<>>
    /\ ifound = <<>>
    /\ ipos = <<0, 0>>
    /\ ipc = "idle"

\* scan(url, params) up to the loops: query_params is built; without
\* parameters the scan returns at once
InjectScan ==
    /\ ipc = "idle"
    /\ qparams' = [n \in Range(icall.names) |-> icall.values[n]]
    /\ IF icall.names = <<>>
       THEN ipc' = "returned" /\ UNCHANGED ipos
       ELSE ipc' = "testing" /\ ipos' = <<1, 1>>
    /\ UNCHANGED <<icall, isent, ifound>>
    /\ UNCHANGED besidesInject

\* one iteration of the inner loop: vuln = self._test_payload(url, param,
\* payload, query_params); if vuln: append, break
InjectProbe ==
    /\ ipc = "testing"
    /\ ipos[1] <= Len(icall.names)
    /\ \E outcome \in ProbeOutcomes :
        LET param == icall.names[ipos[1]]
            payload == PAYLOADS(icall.kind)[ipos[2]]
            dicts == TestParams(icall.kind, qparams, param, payload) IN
        /\ qparams' = dicts.orig
        /\ isent' = Append(isent, [param |-> param, payload |-> payload,
                                   params |-> dicts.test])
        /\ ifound' = IF outcome = "hit"
                     THEN Append(ifound, [parameter |-> param,
                                          payload |-> payload])
                     ELSE ifound
        /\ ipos' = IF outcome = "hit" THEN AfterHit(ipos[1], ipos[2])
                   ELSE IF ipos[2] < Len(PAYLOADS(icall.kind))
                        THEN <<ipos[1], ipos[2] + 1>>
                        ELSE <<ipos[1] + 1, 1>>
    /\ UNCHANGED <<icall, ipc>>
    /\ UNCHANGED besidesInject

\* the outer loop is exhausted: return result
InjectReturn ==
    /\ ipc = "testing"
    /\ ipos[1] > Len(icall.names)
    /\ ipc' = "returned"
    /\ UNCHANGED <<icall, qparams, isent, ifound, ipos>>
    /\ UNCHANGED besidesInject

NextInject ==
    \/ InjectScan
    \/ InjectProbe
    \/ InjectReturn

SpecInject == InitInject /\ [][NextInject]_vars

\* ------------------------------------------------------------ SessionManager
\* operations a session holds at most
MaxOps == 2
\* calls made on the manager at most
MaxCalls == 4

\* the op_id values: str(uuid.uuid4())[:8] can repeat, and so can the ids of
\* a loaded session
OpIds == {"0a1b2c3d", "4e5f6a7b"}

\* the results argument: None, an empty dict, a dict with entries
ResultsArgs == {"None", "{}", "{'open': 1}"}

\* self.current_session is None
NoSession ==
    [open |-> FALSE, targets |-> <<>>, operations |-> <<>>, findings |-> <<>>,
     updated_at |-> 0]

\* Session(name=...): empty lists, created now
NewSession(now) ==
    [open |-> TRUE, targets |-> <<>>, operations |-> <<>>, findings |-> <<>>,
     updated_at |-> now]

\* Operation(module=..., target=..., status="running", started_at=now)
NewOperation(id, now) ==
    [op_id |-> id, status |-> "running", started_at |-> now,
     completed_at |-> 0, results |-> "{}"]

\* results or {}
OrEmpty(results) == IF results = "None" THEN "{}" ELSE results

\* the operation after the three assignments of end_operation
Ended(op, success, results, now) ==
    [op EXCEPT !.status = IF success THEN "success" ELSE "failed",
               !.completed_at = now,
               !.results = OrEmpty(results)]

\* mutant of EndLoop: no break, every operation with the op_id is ended
EndLoopNoBreak(ops, id, success, results, now) ==
    [i \in 1..Len(ops) |->
        IF ops[i].op_id = id THEN Ended(ops[i], success, results, now)
        ELSE ops[i]]

\* for op in operations: if op.op_id == op_id: ...; break
EndLoop(ops, id, success, results, now) ==
    [i \in 1..Len(ops) |->
        IF ops[i].op_id = id /\ \A j \in 1..(i - 1) : ops[j].op_id # id
        THEN Ended(ops[i], success, results, now)
        ELSE ops[i]]

\* save_session(): updated_at is set and the session is written to its file
Saved(session, now) == [session EXCEPT !.updated_at = now]

\* the session a call works on: the current one, or the "Auto-Session"
\* created and saved first
Ensured(session, now) == IF session.open THEN session ELSE NewSession(now)

InitSession ==
    /\ NoneBesidesSess
    /\ scur = NoSession
    /\ sfile = NoSession
    /\ sclock = 1
    /\ slast = [op |-> "init"]
    /\ sprev = NoSession
    /\ spc = "ready"

\* create_session(name)
CreateSession ==
    /\ spc = "ready"
    /\ sclock <= MaxCalls
    /\ scur' = NewSession(sclock)
    /\ sfile' = scur'
    /\ sprev' = scur
    /\ slast' = [op |-> "create_session"]
    /\ sclock' = sclock + 1
    /\ UNCHANGED spc
    /\ UNCHANGED besidesSess

\* add_target(identifier, target_type)
AddTarget ==
    /\ spc = "ready"
    /\ sclock <= MaxCalls
    /\ Len(scur.targets) < 1
    /\ LET session == Ensured(scur, sclock) IN
        scur' = Saved([session EXCEPT !.targets = Append(@, "10.0.0.1")],
                      sclock)
    /\ sfile' = scur'
    /\ sprev' = scur
    /\ slast' = [op |-> "add_target"]
    /\ sclock' = sclock + 1
    /\ UNCHANGED spc
    /\ UNCHANGED besidesSess

\* add_finding(category, severity, title, details)
AddFinding ==
    /\ spc = "ready"
    /\ sclock <= MaxCalls
    /\ Len(scur.findings) < 1
    /\ LET session == Ensured(scur, sclock) IN
        scur' = Saved([session EXCEPT !.findings = Append(@, "open port")],
                      sclock)
    /\ sfile' = scur'
    /\ sprev' = scur
    /\ slast' = [op |-> "add_finding"]
    /\ sclock' = sclock + 1
    /\ UNCHANGED spc
    /\ UNCHANGED besidesSess

\* start_operation(module, target): the new operation gets an op_id
StartOperation ==
    /\ spc = "ready"
    /\ sclock <= MaxCalls
    /\ Len(scur.operations) < MaxOps
    /\ \E id \in OpIds :
        LET session == Ensured(scur, sclock) IN
        /\ scur' = Saved([session EXCEPT
                            !.operations = Append(@, NewOperation(id, sclock))],
                         sclock)
        /\ slast' = [op |-> "start_operation", op_id |-> id]
    /\ sfile' = scur'
    /\ sprev' = scur
    /\ sclock' = sclock + 1
    /\ UNCHANGED spc
    /\ UNCHANGED besidesSess

\* end_operation(op_id, success, results)
EndOperation ==
    /\ spc = "ready"
    /\ sclock <= MaxCalls
    /\ \E id \in OpIds, success \in BOOLEAN, results \in ResultsArgs :
        /\ slast' = [op |-> "end_operation", op_id |-> id,
                     success |-> success, results |-> results, now |-> sclock]
        /\ IF ~scur.open
           THEN UNCHANGED <<scur, sfile>>
           ELSE /\ scur' = Saved([scur EXCEPT
                                    !.operations = EndLoop(@, id, success,
                                                           results, sclock)],
                                 sclock)
                /\ sfile' = scur'
    /\ sprev' = scur
    /\ sclock' = sclock + 1
    /\ UNCHANGED spc
    /\ UNCHANGED besidesSess

NextSession ==
    \/ CreateSession
    \/ AddTarget
    \/ AddFinding
    \/ StartOperation
    \/ EndOperation

SpecSession == InitSession /\ [][NextSession]_vars

\* ------------------------------------------------------------- PluginManager
\* calls made on the manager at most
MaxPluginCalls == 4

\* the plugins of the plugin directories
PluginNames == {"alpha", "beta"}
HookNames == {"on_scan", "on_exit"}

\* plugin_class.HOOKS.items() of each plugin class, in dict order; a callback
\* is named by its plugin and hook. The class of beta has no HOOKS.
HOOKS(name) ==
    IF name = "alpha"
    THEN <<[hook |-> "on_scan", callback |-> <<"alpha", "on_scan">>],
           [hook |-> "on_exit", callback |-> <<"alpha", "on_exit">>]>>
    ELSE <<>>

\* hasattr(plugin, 'cleanup')
HasCleanup(name) == name = "alpha"

\* what loading a plugin's module comes to: the class is registered; the
\* module is missing, fails or holds no plugin class; the class's
\* constructor raises
LoadOutcomes == {"registered", "not loaded", "constructor raises"}

\* what plugin.cleanup() does
CleanupOutcomes(name) == IF HasCleanup(name) THEN {"returns", "raises"}
                         ELSE {"absent"}

\* self._hooks.get(hook_name, [])
HooksGet(hs, h) == IF h \in DOMAIN hs THEN hs[h] ELSE <<>>

\* mutant of Registered: a callback already in the list is not added again
RegisteredOnce(hs, h, cb) ==
    [k \in DOMAIN hs \cup {h} |->
        IF k = h /\ cb \notin Range(HooksGet(hs, h))
        THEN Append(HooksGet(hs, h), cb)
        ELSE HooksGet(hs, k)]

\* register_hook(hook_name, callback): the hook table afterwards
Registered(hs, h, cb) ==
    [k \in DOMAIN hs \cup {h} |->
        IF k = h THEN Append(HooksGet(hs, h), cb) ELSE hs[k]]

\* for hook_name, callback in plugin_class.HOOKS.items(): register_hook(...),
\* from the k-th item on
RECURSIVE RegisterAll(_, _, _)
RegisterAll(hs, items, k) ==
    IF k > Len(items) THEN hs
    ELSE RegisterAll(Registered(hs, items[k].hook, items[k].callback),
                     items, k + 1)

Tables == [plugins |-> plugins, metadata |-> metadata, hooks |-> hooks]

InitPlugin ==
    /\ NoneBesidesPlugin
    /\ plugins = {}
    /\ metadata = {}
    /\ hooks = <<>>
    /\ invoked = <<>>
    /\ plast = [op |-> "init"]
    /\ pprev = [plugins |-> {}, metadata |-> {}, hooks |-> <<>>]
    /\ pcalls = 0
    /\ ppc = "ready"

\* load_plugin(plugin_name), with _load_module and _register_plugin
LoadPlugin ==
    /\ ppc = "ready"
    /\ pcalls < MaxPluginCalls
    /\ \E name \in PluginNames, outcome \in LoadOutcomes :
        /\ plast' = [op |-> "load_plugin", name |-> name,
                     ret |-> outcome = "registered"]
        /\ metadata' = IF outcome = "not loaded" THEN metadata
                       ELSE metadata \cup {name}
        /\ plugins' = IF outcome = "registered" THEN plugins \cup {name}
                      ELSE plugins
        /\ hooks' = IF outcome = "registered"
                    THEN RegisterAll(hooks, HOOKS(name), 1)
                    ELSE hooks
    /\ pprev' = Tables
    /\ pcalls' = pcalls + 1
    /\ UNCHANGED <<invoked, ppc>>
    /\ UNCHANGED besidesPlugin

\* unload_plugin(plugin_name)
UnloadPlugin ==
    /\ ppc = "ready"
    /\ pcalls < MaxPluginCalls
    /\ \E name \in PluginNames :
        IF name \notin plugins
        THEN /\ plast' = [op |-> "unload_plugin", name |-> name,
                          ret |-> FALSE, exc |-> FALSE]
             /\ UNCHANGED <<plugins, metadata>>
        ELSE \E outcome \in CleanupOutcomes(name) :
                IF outcome = "raises"
                THEN /\ plast' = [op |-> "unload_plugin", name |-> name,
                                  ret |-> FALSE, exc |-> TRUE]
                     /\ UNCHANGED <<plugins, metadata>>
                ELSE /\ plast' = [op |-> "unload_plugin", name |-> name,
                                  ret |-> TRUE, exc |-> FALSE]
                     /\ plugins' = plugins \ {name}
                     /\ metadata' = metadata \ {name}
    /\ pprev' = Tables
    /\ pcalls' = pcalls + 1
    /\ UNCHANGED <<hooks, invoked, ppc>>
    /\ UNCHANGED besidesPlugin

\* register_hook(hook_name, callback) called by the application
RegisterHook ==
    /\ ppc = "ready"
    /\ pcalls < MaxPluginCalls
    /\ hooks' = Registered(hooks, "on_exit", <<"engine", "on_exit">>)
    /\ plast' = [op |-> "register_hook", hook |-> "on_exit"]
    /\ pprev' = Tables
    /\ pcalls' = pcalls + 1
    /\ UNCHANGED <<plugins, metadata, invoked, ppc>>
    /\ UNCHANGED besidesPlugin

\* trigger_hook(hook_name): every callback of the list is called, in order;
\* one that raises is reported and the loop goes on
TriggerHook ==
    /\ ppc = "ready"
    /\ pcalls < MaxPluginCalls
    /\ \E h \in HookNames :
        /\ invoked' = HooksGet(hooks, h)
        /\ plast' = [op |-> "trigger_hook", hook |-> h]
    /\ pprev' = Tables
    /\ pcalls' = pcalls + 1
    /\ UNCHANGED <<plugins, metadata, hooks, ppc>>
    /\ UNCHANGED besidesPlugin

NextPlugin ==
    \/ LoadPlugin
    \/ UnloadPlugin
    \/ RegisterHook
    \/ TriggerHook

SpecPlugin == InitPlugin /\ [][NextPlugin]_vars

\* --------------------------------------------------------- PhantomEngine.run
\* loop iterations begun at most
MaxMenus == 3

\* the lines typed at the menu prompt: "00", "Exit ", "JACKOUT", "99", "01"
\* and the empty line
MenuLines ==
    {<<48, 48>>, <<69, 120, 105, 116, 32>>, <<74, 65, 67, 75, 79, 85, 84>>,
     <<57, 57>>, <<48, 49>>, <<>>}

\* "00", "exit", "jackout", "99"
JackOutId == <<48, 48>>
ExitWord == <<101, 120, 105, 116>>
JackoutWord == <<106, 97, 99, 107, 111, 117, 116>>
ConfigId == <<57, 57>>

\* choice == "00" or choice.lower() == "exit" or choice.lower() == "jackout"
IsJackOut(c) == c = JackOutId \/ Lower(c) = ExitWord \/ Lower(c) = JackoutWord

\* what a step inside the try block comes to: it completes, it raises an
\* ordinary exception, or it raises KeyboardInterrupt
StepOutcomes == {"done", "exception", "interrupt"}

\* where the loop goes on from when a step inside the try block raises:
\* except KeyboardInterrupt: continue; except Exception: the handler
Caught(outcome) == IF outcome = "interrupt" THEN "while" ELSE "handler"

\* except Exception: display_message(...); input("Press Enter to
\* continue..."): the loop goes on when the prompt returns; what the prompt
\* raises leaves run
AfterHandler(outcome) == IF outcome = "done" THEN "while" ELSE "raised"

InitEngine ==
    /\ NoneBesidesEngine
    /\ session_active = FALSE
    /\ initialized = FALSE
    /\ choice = <<>>
    /\ eof = FALSE
    /\ cleaned = FALSE
    /\ ecause = "none"
    /\ menus = 0
    /\ epc = "new"

\* run(): the two assignments before the loop
Run ==
    /\ epc = "new"
    /\ initialized' = TRUE
    /\ session_active' = TRUE
    /\ epc' = "while"
    /\ UNCHANGED <<choice, eof, cleaned, ecause, menus>>
    /\ UNCHANGED besidesEngine

\* while self.state.session_active:
LoopTest ==
    /\ epc = "while"
    /\ IF session_active
       THEN /\ menus < MaxMenus
            /\ menus' = menus + 1
            /\ epc' = "banner"
       ELSE /\ epc' = "returned"
            /\ UNCHANGED menus
    /\ UNCHANGED <<session_active, initialized, choice, eof, cleaned, ecause>>
    /\ UNCHANGED besidesEngine

\* display_banner(); display_menu()
ShowMenu ==
    /\ epc = "banner"
    /\ \E outcome \in StepOutcomes :
        /\ epc' = IF outcome = "done" THEN "prompt" ELSE Caught(outcome)
        /\ ecause' = IF outcome = "exception" THEN "menu" ELSE ecause
    /\ UNCHANGED <<session_active, initialized, choice, eof, cleaned, menus>>
    /\ UNCHANGED besidesEngine

\* the branch the choice selects
Branch(c) ==
    IF IsJackOut(c) THEN "jackout"
    ELSE IF c = ConfigId THEN "config"
    ELSE IF c # <<>> THEN "module"
    ELSE "while"

\* choice = self.get_user_input(): the line stripped, "00" at end of input;
\* then the if / elif chain
Prompt ==
    /\ epc = "prompt"
    /\ \/ \E line \in MenuLines :
            /\ choice' = Strip(line)
            /\ eof' = FALSE
            /\ epc' = Branch(Strip(line))
       \/ /\ choice' = JackOutId
          /\ eof' = TRUE
          /\ epc' = Branch(JackOutId)
       \/ /\ epc' = Caught("interrupt")
          /\ UNCHANGED <<choice, eof>>
    /\ UNCHANGED <<session_active, initialized, cleaned, ecause, menus>>
    /\ UNCHANGED besidesEngine

\* display_message("Initiating jack-out sequence..."); self.cleanup()
JackOut ==
    /\ epc = "jackout"
    /\ \E outcome \in StepOutcomes :
        IF outcome = "done"
        THEN /\ session_active' = FALSE
             /\ cleaned' = TRUE
             /\ epc' = "farewell"
             /\ UNCHANGED ecause
        ELSE /\ epc' = Caught(outcome)
             /\ ecause' = IF outcome = "exception" THEN "jackout" ELSE ecause
             /\ UNCHANGED <<session_active, cleaned>>
    /\ UNCHANGED <<initialized, choice, eof, menus>>
    /\ UNCHANGED besidesEngine

\* print(...); break
Farewell ==
    /\ epc = "farewell"
    /\ \E outcome \in StepOutcomes :
        /\ epc' = IF outcome = "done" THEN "returned" ELSE Caught(outcome)
        /\ ecause' = IF outcome = "exception" THEN "farewell" ELSE ecause
    /\ UNCHANGED <<session_active, initialized, choice, eof, cleaned, menus>>
    /\ UNCHANGED besidesEngine

\* self.show_config_menu(); its uninstall entry ends in sys.exit(0)
Config ==
    /\ epc = "config"
    /\ \/ \E outcome \in StepOutcomes :
            /\ epc' = IF outcome = "done" THEN "while" ELSE Caught(outcome)
            /\ ecause' = IF outcome = "exception" THEN "config" ELSE ecause
       \/ /\ epc' = "exited"
          /\ UNCHANGED ecause
    /\ UNCHANGED <<session_active, initialized, choice, eof, cleaned, menus>>
    /\ UNCHANGED besidesEngine

\* self.run_module(choice)
Module ==
    /\ epc = "module"
    /\ \E outcome \in StepOutcomes :
        /\ epc' = IF outcome = "done" THEN "while" ELSE Caught(outcome)
        /\ ecause' = IF outcome = "exception" THEN "module" ELSE ecause
    /\ UNCHANGED <<session_active, initialized, choice, eof, cleaned, menus>>
    /\ UNCHANGED besidesEngine

\* except Exception as e: display_message(...); input(...)
Handler ==
    /\ epc = "handler"
    /\ \E outcome \in StepOutcomes :
        /\ epc' = AfterHandler(outcome)
        /\ ecause' = IF outcome = "done" THEN "none" ELSE ecause
    /\ UNCHANGED <<session_active, initialized, choice, eof, cleaned, menus>>
    /\ UNCHANGED besidesEngine

\* SIGINT or SIGTERM while run is on the stack: _signal_handler calls
\* cleanup() and sys.exit(0)
Signal ==
    /\ epc \in {"while", "banner", "prompt", "jackout", "farewell", "config",
                "module", "handler"}
    /\ session_active' = FALSE
    /\ cleaned' = TRUE
    /\ epc' = "exited"
    /\ UNCHANGED <<initialized, choice, eof, ecause, menus>>
    /\ UNCHANGED besidesEngine

NextEngine ==
    \/ Run
    \/ LoopTest
    \/ ShowMenu
    \/ Prompt
    \/ JackOut
    \/ Farewell
    \/ Config
    \/ Module
    \/ Handler
    \/ Signal

SpecEngine == InitEngine /\ [][NextEngine]_vars

\* ================================================================ claims
NoDup(s) == \A i, j \in 1..Len(s) : i # j => s[i] # s[j]
Returned == pc = "returned"
Hostname(label) == label \o <<Dot>> \o Target
LabelOf(host) == SubSeq(host, 1, Len(host) - Len(Target) - 1)
Count(hits, P(_)) == Cardinality({i \in 1..Len(hits) : P(hits[i])})

\* the TCP connect to port c succeeds within the timeout
Connected(c) ==
    env[c].res = "ret" /\ env[c].code = 0 /\ env[c].dur <= timeout
\* the hostname of label c resolves
Resolves(c) == env[c].res = "ret"
\* the GET of path c is answered in time with one of the four statuses
Answered(c) ==
    /\ env[c].res = "ret"
    /\ env[c].dur <= timeout
    /\ env[c].code \in {200, 301, 302, 403}
Matched(kind, c) ==
    CASE kind = "port" -> Connected(c)
      [] kind = "sub" -> Resolves(c)
      [] kind = "dir" -> Answered(c)
\* the hit a scanner reports for candidate c
HitOf(kind, c) == IF kind = "sub" THEN Hostname(c) ELSE c
\* every candidate was probed once and its future consumed
AllCompleted ==
    /\ Len(fut) = Len(cands)
    /\ result.total = Len(cands)
    /\ \A i \in 1..Len(fut) : fut[i] = "yielded" /\ probes[i] = 1
\* the request for (parameter, payload) is answered with a matching body
PairMatches(p, y) ==
    /\ env[<<p, y>>].res = "ret"
    /\ IF scanner = "sqli" THEN env[<<p, y>>].errs # {} ELSE env[<<p, y>>].echo
HitsOfParam(hits, p) == {i \in 1..Len(hits) : hits[i].parameter = p}

\* C1: PortScanner.scan over a duplicate-free port list reports exactly the
\* candidate ports whose TCP connect matched, and total_scanned is the number
\* of candidates.
C1_OpenPortsExact ==
    (Returned /\ scanner = "port" /\ NoDup(cands)) =>
        /\ Range(result.hits) = {c \in Range(cands) : Connected(c)}
        /\ Len(result.hits) = Cardinality({c \in Range(cands) : Connected(c)})
        /\ result.total = Len(cands)

C3_DirSorted ==
    (Returned /\ scanner = "dir") =>
        \A i, j \in 1..Len(result.hits) :
            i < j => ~StrLess(result.hits[j][1], result.hits[i][1])

\* C4: if every probe matches, a pool scanner reports as many hits as there
\* are candidates.
C4_AllMatchAllHits ==
    (Returned /\ scanner \in PoolKinds
        /\ \A c \in Range(cands) : Matched(scanner, c)) =>
            Len(result.hits) = Len(cands)

\* C5: SQLiScanner.scan and XSSScanner.scan never hold more than one hit per
\* parameter, and return exactly one hit for each parameter with a matching
\* payload and none for a parameter without one.
C5_OneHitPerParameter ==
    scanner \in VulnKinds =>
        /\ \A p \in ParamUniverse : Cardinality(HitsOfParam(found, p)) <= 1
        /\ Returned =>
            \A p \in Range(cands) :
                Cardinality(HitsOfParam(result.hits, p)) =
                    IF \E y \in Range(PAYLOADS(scanner)) : PairMatches(p, y)
                    THEN 1 ELSE 0

\* C5 witness: two parameters were tested, every payload of one matches and
\* no payload of the other does, and one hit is returned.
C5_Witness ==
    /\ Returned
    /\ scanner \in VulnKinds
    /\ Len(cands) = 2
    /\ \A y \in Range(PAYLOADS(scanner)) : PairMatches(cands[1], y)
    /\ \A y \in Range(PAYLOADS(scanner)) : ~PairMatches(cands[2], y)
    /\ Len(result.hits) = 1

\* C6: the second run of the same scan against the same network returns the
\* same hits as the first, as a set and in number.
C6_SameHitSet ==
    (Returned /\ run = 2) =>
        /\ Range(result.hits) = Range(prev.hits)
        /\ Len(result.hits) = Len(prev.hits)

\* C6 witness: the second directory scan returned its two hits in another
\* order than the first.
C6_Witness ==
    /\ Returned
    /\ run = 2
    /\ scanner = "dir"
    /\ Len(result.hits) = 2
    /\ result.hits # prev.hits

\* C7: a port or subdomain probe whose operation takes longer than the
\* configured timeout is never reported as a hit.
C7_TimeoutNeverHit ==
    (Returned /\ scanner \in {"port", "sub"}) =>
        \A c \in Range(cands) :
            env[c].dur > timeout =>
                \A i \in 1..Len(result.hits) :
                    result.hits[i] # HitOf(scanner, c)

\* C8: scan never raises because of failed probes; a candidate whose probe
\* raises is not a hit, and the remaining candidates are still probed
\* (every pool candidate once; for SQLi/XSS every payload of a parameter
\* unless that parameter has a hit).
C8_ErrorsAbsorbed ==
    /\ pc = "raised" => threads <= 0
    /\ (Returned /\ scanner \in {"port", "dir"}) =>
        /\ AllCompleted
        /\ \A c \in Range(cands) :
            env[c].res = "raise" =>
                \A i \in 1..Len(result.hits) :
                    IF scanner = "port" THEN result.hits[i] # c
                    ELSE result.hits[i][1] # c
    /\ (Returned /\ scanner \in VulnKinds) =>
        \A p \in Range(cands) :
            /\ \A y \in Range(PAYLOADS(scanner)) :
                env[<<p, y>>].res = "raise" =>
                    \A i \in 1..Len(result.hits) :
                        ~(result.hits[i].parameter = p
                            /\ result.hits[i].payload = y)
            /\ \/ HitsOfParam(result.hits, p) # {}
               \/ \A y \in Range(PAYLOADS(scanner)) :
                    \E k \in 1..Len(probes) : probes[k] = <<p, y>>

\* C8 witness: a port scan returned a hit although the probe of another
\* candidate raised.
C8_Witness ==
    /\ Returned
    /\ scanner = "port"
    /\ \E c \in Range(cands) : env[c].res = "raise"
    /\ Len(result.hits) >= 1

\* C9: a pool scan called with an explicitly empty list is rejected before
\* the engine starts: it enters no probe and returns no result.
C9_EmptyListRejected ==
    (scanner \in PoolKinds /\ given /\ arg = <<>>) =>
        /\ pc # "returned"
        /\ \A i \in 1..Len(probes) : probes[i] = 0

\* C10: a pool scan configured with threads <= 0 or timeout <= 0 fails
\* before any probe starts: it enters no probe and returns no result.
C10_BadConfigRejected ==
    (scanner \in PoolKinds /\ (threads <= 0 \/ timeout <= 0)) =>
        /\ pc # "returned"
        /\ \A i \in 1..Len(probes) : probes[i] = 0

\* C11: after the caller cancels a running scan no further candidate starts
\* executing, and when the scan ends it has yielded a result that carries
\* the hits collected so far.
C11_CancelStopsDispatch ==
    [][/\ pc = "interrupted" => probes' = probes
       /\ pc' = "cancelled" =>
            /\ result' # NoResult
            /\ result'.hits = found']_vars

\* C12: a pool scan enters the probe of each list entry at most once, and
\* exactly once by the time it returns; a probe that failed is not repeated.
C12_OneProbePerCandidate ==
    scanner \in PoolKinds =>
        /\ \A i \in 1..Len(probes) : probes[i] <= 1
        /\ Returned =>
            /\ Len(probes) = Len(cands)
            /\ \A i \in 1..Len(probes) : probes[i] = 1

\* C12 witness: a directory scan over two paths returned after the request
\* for one of them raised.
C12_Witness ==
    /\ Returned
    /\ scanner = "dir"
    /\ Len(cands) = 2
    /\ \E c \in Range(cands) : env[c].res = "raise"

\* C13: DirectoryBuster.scan reports a path if and only if its GET was
\* answered (in time) with status 200, 301, 302 or 403, the hit carries that
\* status, and the number of hits is the number of list entries so answered.
C13_DirStatusHits ==
    (Returned /\ scanner = "dir") =>
        /\ \A c \in Range(cands) :
            (\E i \in 1..Len(result.hits) : result.hits[i][1] = c)
                <=> Answered(c)
        /\ \A i \in 1..Len(result.hits) :
            result.hits[i][2] = env[result.hits[i][1]].code
        /\ Len(result.hits) =
            Cardinality({i \in 1..Len(cands) : Answered(cands[i])})

\* C13 witness: of two paths one was answered 404 and the other 403, and
\* only the second is reported.
C13_Witness ==
    /\ Returned
    /\ scanner = "dir"
    /\ Len(cands) = 2
    /\ env[cands[1]].res = "ret" /\ env[cands[1]].code = 404
    /\ env[cands[2]].res = "ret" /\ env[cands[2]].code = 403
    /\ result.hits = <<<<cands[2], 403>>>>

\* the value a scanner's probe returns for a matched candidate c
HitValue(kind, c) ==
    CASE kind = "port" -> c
      [] kind = "sub" -> Hostname(c)
      [] kind = "dir" -> <<c, env[c].code>>
Min(a, b) == IF a <= b THEN a ELSE b
\* every list entry whose probe matched has its hit in the list once
EachMatchOnce(hits) ==
    /\ Len(hits) =
        Cardinality({i \in 1..Len(cands) : Matched(scanner, cands[i])})
    /\ \A c \in Range(cands) :
        Matched(scanner, c) =>
            Cardinality({i \in 1..Len(hits) : hits[i] = HitValue(scanner, c)})
                = Cardinality({i \in 1..Len(cands) : cands[i] = c})

\* a step of a pool scan in which only the collecting thread touches the hit
\* list and, on return, the list holds every matched outcome once
CollectorOnlyStep ==
    scanner \in PoolKinds =>
        /\ (pc \in {"collecting", "interrupted"} /\ found' # found) =>
              (\E i \in 1..Len(fut) :
                  /\ fut[i] = "finished"
                  /\ fut'[i] = "yielded"
                  /\ found' = Append(found, ret[i].val))
        /\ (pc' = "returned") => EachMatchOnce(found')

\* C17: while a pool scan runs, its hit list changes only in a step of the
\* collecting thread that consumes a finished future, and when the scan
\* returns every matched outcome is in the list exactly once.
C17_SingleWriterExactlyOnce ==
    [][CollectorOnlyStep]_vars

\* C18: the number of probes executing at once never exceeds
\* min(threads, candidates_total).
C18_BoundedConcurrency ==
    scanner \in PoolKinds =>
        Cardinality(Running) <= Min(threads, Len(cands))

\* C18 witness: one worker, two candidates: one probe runs while the other
\* candidate waits in the queue.
C18_Witness ==
    /\ scanner \in PoolKinds
    /\ threads = 1
    /\ Len(cands) = 2
    /\ Cardinality(Running) = 1
    /\ \E i \in 1..Len(fut) : fut[i] = "pending"

\* C19: when a pool scan returns, every dispatched probe has finished, no
\* worker is running, its executor is shut down, and it was made for this
\* call (as many executors were made as scans were started).
C19_ReturnAfterShutdown ==
    scanner \in PoolKinds =>
        /\ pool.made <= run
        /\ Returned =>
            /\ \A i \in 1..Len(fut) : fut[i] = "yielded"
            /\ Running = {}
            /\ ~pool.open
            /\ pool.made = run

\* C19 witness: the second subdomain scan over two labels has returned.
C19_Witness ==
    /\ Returned
    /\ scanner = "sub"
    /\ run = 2
    /\ Len(cands) = 2
    /\ pool.made = 2

Identified == hidx = Len(HASH_PATTERNS) + 2
\* the expected length of each hash type
TypeLen ==
    [t \in HashTypes |->
        CASE t \in {"MD5", "NTLM"} -> 32
          [] t = "SHA1" -> 40
          [] t = "SHA256" -> 64
          [] t = "SHA512" -> 128
          [] t = "BCRYPT" -> 60]
AllHex(s) == \A i \in 1..Len(s) : s[i] \in HexChars
\* the character-class pattern of type t holds of s
ClassMatches(t, s) ==
    IF t = "BCRYPT"
    THEN /\ Len(s) >= 5
         /\ <<s[1], s[2], s[4]>> = <<36, 50, 36>>
         /\ s[3] \in {97, 98, 121}
         /\ s[5] # 10
    ELSE AllHex(s)

\* C14: identify returns, each once, exactly the hash types whose expected
\* length is the input's length and whose character-class pattern matches
\* the input; 32 hex characters give both MD5 and NTLM.
C14_AllMatchingTypes ==
    Identified =>
        /\ Range(possible_types) =
            {t \in HashTypes :
                TypeLen[t] = Len(hash_value) /\ ClassMatches(t, hash_value)}
        /\ NoDup(possible_types)
        /\ (Len(hash_value) = 32 /\ AllHex(hash_value)) =>
                Range(possible_types) = {"MD5", "NTLM"}

\* C14 witness: a 32-hex-character input was identified as MD5 and NTLM.
C14_Witness ==
    /\ Identified
    /\ Len(hash_value) = 32
    /\ AllHex(hash_value)
    /\ possible_types = <<"MD5", "NTLM">>

\* sub lies in d at offset k (counted from 0)
Occurs(d, sub, k) ==
    /\ k >= 0
    /\ k + Len(sub) <= Len(d)
    /\ \A j \in 1..Len(sub) : d[k + j] = sub[j]
IsType(t, u) == u.type = t
\* the units of file type t, in the order carve produced them
UnitsOf(t) == SelectSeq(carved, LAMBDA u : IsType(t, u))
\* the offsets of the footers of type t lying after a header at pos
FootersAfter(t, pos) ==
    {k \in (pos + Len(FILE_SIGNATURES[t].header))..Len(data) :
        /\ FILE_SIGNATURES[t].footer # <<>>
        /\ Occurs(data, FILE_SIGNATURES[t].footer, k)}
\* the offsets of the headers of type t at or after offset k0
HeadersFrom(t, k0) ==
    {k \in k0..Len(data) : Occurs(data, FILE_SIGNATURES[t].header, k)}
SetMin(S) == CHOOSE x \in S : \A y \in S : x <= y
Carved == cpc = "done"

OwnMatches(k) ==
    {i \in 1..Len(dcall[k].cands) : denv[<<k, dcall[k].cands[i]>>] = "hit"}
\* the hit a matched candidate c is reported as
DuoHit(c) == IF dkind = "port" THEN c ELSE <<c, 200>>

\* C20: of two scan calls on one scanner object, each runs at most
\* `threads` probes of its own, and each result holds exactly the outcomes
\* of that call's probes against that call's target and counts that call's
\* candidates, whether or not the calls overlapped.
C20_ScansIsolated ==
    dkind \in DuoKinds =>
        \A k \in Calls :
            /\ Cardinality(DuoRunning(k)) <= dthreads
            /\ dcall[k].pc = "returned" =>
                LET r == dcall[k].result
                IN  /\ \A h \in Range(r.hits) :
                        \E i \in OwnMatches(k) : h = DuoHit(dcall[k].cands[i])
                    /\ Len(r.hits) = Cardinality(OwnMatches(k))
                    /\ r.count = Len(r.hits)
                    /\ r.total = Len(dcall[k].cands)

\* C20 witness: both calls scanned port 22 at the same time, it was open on
\* the first target only, and only the first result reports it.
C20_Witness ==
    /\ dkind = "port"
    /\ \A k \in Calls : dcall[k].pc = "returned" /\ dcall[k].cands = <<22>>
    /\ dcall[2].overlapped
    /\ dcall[1].result.hits = <<22>>
    /\ dcall[2].result.hits = <<>>

\* the catalogue positions of the payloads that were sent for parameter p
SentFor(p) ==
    {y \in 1..Len(PAYLOADS(scanner)) :
        \E i \in 1..Len(probes) : probes[i] = <<p, PAYLOADS(scanner)[y]>>}
\* the catalogue positions of the payloads that match for parameter p
MatchingFor(p) ==
    {y \in 1..Len(PAYLOADS(scanner)) : PairMatches(p, PAYLOADS(scanner)[y])}

\* C21: when SQLiScanner.scan returns, every parameter was tested; for a
\* parameter with a matching payload exactly the payloads up to the earliest
\* matching one were sent and that one is reported; for a parameter without
\* one every payload was sent; no request was sent twice.
C21_FirstMatchPerParameter ==
    (Returned /\ scanner = "sqli") =>
        /\ NoDup(probes)
        /\ \A p \in Range(cands) :
            IF MatchingFor(p) = {}
            THEN SentFor(p) = 1..Len(PAYLOADS(scanner))
            ELSE /\ SentFor(p) = 1..SetMin(MatchingFor(p))
                 /\ \A i \in HitsOfParam(result.hits, p) :
                        result.hits[i].payload =
                            PAYLOADS(scanner)[SetMin(MatchingFor(p))]

\* C21 witness: the first payload matched for the first parameter, and the
\* second parameter was still tested with both payloads and hit on the second.
C21_Witness ==
    /\ Returned
    /\ scanner = "sqli"
    /\ Len(cands) = 2
    /\ MatchingFor(cands[1]) = {1, 2}
    /\ MatchingFor(cands[2]) = {2}
    /\ Len(probes) = 3
    /\ Len(result.hits) = 2

\* the hits recorded for the request (parameter, payload) of pair pr
HitsOfPair(pr) ==
    {i \in 1..Len(found) :
        found[i].parameter = pr[1] /\ found[i].payload = pr[2]}

\* C22: for every request the SQL-injection scanner has sent, a match is
\* recorded if and only if the request was answered with a body matching at
\* least one entry of ERROR_PATTERNS, and the evidence of every recorded
\* match is an entry that matches that body.
C22_MatchIffSignature ==
    scanner = "sqli" =>
        /\ \A i \in 1..Len(probes) :
            (HitsOfPair(probes[i]) # {}) <=>
                (/\ env[probes[i]].res = "ret"
                 /\ env[probes[i]].errs \cap Range(ERROR_PATTERNS) # {})
        /\ \A i \in 1..Len(found) :
            found[i].evidence \in
                env[<<found[i].parameter, found[i].payload>>].errs

\* C22 witness: one request failed in transport and is no match, and a later
\* request whose body matches only the second signature is a match naming it.
C22_Witness ==
    /\ scanner = "sqli"
    /\ Len(probes) >= 2
    /\ env[probes[1]].res = "raise"
    /\ HitsOfPair(probes[1]) = {}
    /\ \E i \in 1..Len(found) :
        /\ found[i].evidence = ERROR_PATTERNS[2]
        /\ env[<<found[i].parameter, found[i].payload>>].errs
                = {ERROR_PATTERNS[2]}

\* the header line "Name: value" of header h
HeaderLine(h) == h[1] \o <<58, 32>> \o h[2]
\* signature sig is present in the response body or in a header line,
\* letter case aside
SigPresent(sig) ==
    \/ Contains(Lower(tresp.body), Lower(sig))
    \/ \E i \in 1..Len(tresp.headers) :
        Contains(Lower(HeaderLine(tresp.headers[i])), Lower(sig))
TechNames == {TECH_SIGNATURES[i].tech : i \in 1..Len(TECH_SIGNATURES)}
PresentTechs ==
    {TECH_SIGNATURES[i].tech : i \in
        {k \in 1..Len(TECH_SIGNATURES) :
            \E j \in 1..Len(TECH_SIGNATURES[k].signatures) :
                SigPresent(TECH_SIGNATURES[k].signatures[j])}}

\* C23: when fingerprinting returns, the technologies of the signature
\* table it reports are exactly those with a signature present in the body
\* or the headers, each once.
C23_AllPresentTechnologies ==
    tpc = "returned" =>
        /\ Range(detected) \cap TechNames = PresentTechs
        /\ \A i, j \in 1..Len(detected) :
            (i # j /\ detected[i] \in TechNames) => detected[i] # detected[j]

\* a natural number that measures the work carve has left: the file types
\* still to visit, and within one type the bytes behind the scan position
CarveRank ==
    LET L == Len(CarveTypes(file_types))
        M == Len(data) + 3
    IN  CASE cpc = "idle" -> (L + 1) * M + M - 1
          [] cpc = "types" -> (L + 1 - ftidx) * M + M - 1
          [] cpc = "scan" -> (L + 1 - ftidx) * M + (Len(data) - start) + 1
          [] OTHER -> 0
UnitsBounded ==
    \A t \in DOMAIN FILE_SIGNATURES : Len(UnitsOf(t)) <= Len(data)
\* a step of carve: the work left shrinks and stays a natural number; a turn
\* of the while loop that carves a unit carves a non-empty one and moves the
\* scan position forward to its end
CarveProgress ==
    /\ CarveRank' < CarveRank
    /\ CarveRank' >= 0
    /\ UnitsBounded'
    /\ carved' # carved =>
        LET u == carved'[Len(carved')]
        IN  /\ carved' = Append(carved, u)
            /\ start <= u.pos
            /\ u.pos < u.end
            /\ start' = u.end
            /\ start < start'
            /\ start' <= Len(data)

\* C24: every step of carve reduces a natural-number measure of the work
\* left, so carve terminates; each unit is non-empty, the scan position
\* strictly advances past it, and a signature yields at most len(data) units.
C24_CarveTerminates ==
    [][CarveProgress]_vars

\* C24 witness: carve has returned after the while loop of the EXE signature
\* went round twice on data of the greatest length.
C24_Witness ==
    /\ Carved
    /\ Len(data) = MaxData
    /\ Len(UnitsOf("exe")) = 2

\* the attack in progress has ended
CrackDone == kpc \in {"returned", "raised"}
\* the digest of plaintext q under the attack's hash type equals the
\* lowercased target
TrueMatch(q) ==
    IF ctype \in {"MD5", "SHA1", "SHA256", "SHA512", "NTLM"}
    THEN DigestOf(ctype, q, cenv.matching) = Lower(ccall.hash_value)
    ELSE <<>> = Lower(ccall.hash_value)
\* q is a candidate of the brute-force call: over the charset, of a length
\* from min_len to max_len
InRange(q) ==
    /\ q \in Plaintexts
    /\ ccall.min_len <= Len(q)
    /\ Len(q) <= ccall.max_len
\* the words of the wordlist, stripped
Words == [i \in 1..Len(ccall.wordlist.lines) |-> Strip(ccall.wordlist.lines[i])]
MatchingWords == {i \in 1..Len(Words) : TrueMatch(Words[i])}

\* C25: a finished brute_force has returned; it tested candidates by
\* increasing length and in charset order within a length, none of them
\* matching before the last; a returned plaintext matches the lowercased
\* target and no matching candidate is shorter; None is returned exactly when
\* no candidate of the length range matches. A finished dictionary_attack
\* has returned the first matching word of the wordlist, or None when there
\* is none.
C25_FirstMatchInOrder ==
    /\ (kpc # "off" /\ ccall.entry = "brute_force" /\ CrackDone) =>
        /\ kpc = "returned"
        /\ \A i, j \in 1..Len(tested) :
            i < j =>
                /\ Len(tested[i]) <= Len(tested[j])
                /\ Len(tested[i]) = Len(tested[j]) =>
                        StrLess(tested[i], tested[j])
                /\ ~TrueMatch(tested[i])
        /\ cret.some =>
            /\ InRange(cret.val)
            /\ TrueMatch(cret.val)
            /\ \A q \in Plaintexts :
                (InRange(q) /\ TrueMatch(q)) => Len(cret.val) <= Len(q)
        /\ ~cret.some <=> ~\E q \in Plaintexts : InRange(q) /\ TrueMatch(q)
    /\ (kpc # "off" /\ ccall.entry = "dictionary_attack"
            /\ CrackDone) =>
        /\ kpc = "returned"
        /\ cret = IF MatchingWords = {} THEN None
                  ELSE Some(Words[SetMin(MatchingWords)])

\* the hash types whose length and character class fit s
Identifiable(s) ==
    {t \in HashTypes : TypeLen[t] = Len(s) /\ ClassMatches(t, s)}

\* C26: crack_hash hashes with at most one type, one that identification
\* returns; for a 32-hex-character hash that type is MD5 and never NTLM; when
\* no type is identified nothing is hashed and None is returned.
C26_OnlyFirstTypeTried ==
    (kpc # "off" /\ ccall.entry = "crack_hash") =>
        /\ Cardinality(tried) <= 1
        /\ tried \subseteq Identifiable(ccall.hash_value)
        /\ (Len(ccall.hash_value) = 32 /\ AllHex(ccall.hash_value)) =>
                tried \subseteq {"MD5"}
        /\ Identifiable(ccall.hash_value) = {} =>
                /\ tested = <<>>
                /\ tried = {}
                /\ kpc = "returned" => cret = None

\* C26 witness: crack_hash of 32 upper-case hex characters by brute force
\* returned a plaintext, having hashed with MD5 only.
C26_Witness ==
    /\ kpc # "off"
    /\ ccall.entry = "crack_hash"
    /\ ccall.method = "bruteforce"
    /\ ccall.hash_value = HashInput(32, 65, <<>>, 0)
    /\ kpc = "returned"
    /\ cret.some
    /\ tried = {"MD5"}

\* the query parameters the scan was called with
OriginalParams == [n \in Range(icall.names) |-> icall.values[n]]

\* C27: every probe sent carries the original value at every name other than
\* the probed one and, at the probed name, its own payload injected into the
\* original value: no payload of another probe is in it; and the scan's
\* parameter map is still the original one.
C27_ProbesLeaveParamsAlone ==
    ipc \in {"testing", "returned"} =>
        /\ qparams = OriginalParams
        /\ \A i \in 1..Len(isent) :
            /\ DOMAIN isent[i].params = Range(icall.names)
            /\ \A n \in Range(icall.names) \ {isent[i].param} :
                    isent[i].params[n] = OriginalParams[n]
            /\ isent[i].params[isent[i].param] =
                    Injected(icall.kind, OriginalParams, isent[i].param,
                             isent[i].payload)
            /\ \A j \in 1..(i - 1), n \in Range(icall.names) :
                    isent[j].payload \in Range(isent[i].params[n]) =>
                        /\ n = isent[i].param
                        /\ isent[j].payload = isent[i].payload

\* C27 witness: an SQLi scan of two parameters has returned after probing
\* each with every payload.
C27_Witness ==
    /\ ipc = "returned"
    /\ icall.kind = "sqli"
    /\ Len(icall.names) = 2
    /\ Len(isent) = 2 * Len(SQLI_PAYLOADS)

\* the positions of the operations with op_id id
WithId(ops, id) == {i \in 1..Len(ops) : ops[i].op_id = id}

\* C28: after end_operation(op_id, success, results) the operations are the
\* ones before the call, except the first with that op_id, whose status is
\* "success" or "failed" by the success argument, whose results are the
\* argument (an empty dict for None) and whose completion time is the time of
\* the call; targets and findings are the ones before; with no operation of
\* that op_id, or no current session, no operation has changed.
C28_EndOperationFrame ==
    (spc = "ready" /\ slast.op = "end_operation") =>
        LET before == sprev.operations
            after == scur.operations
            hits == WithId(before, slast.op_id) IN
        /\ Len(after) = Len(before)
        /\ scur.targets = sprev.targets
        /\ scur.findings = sprev.findings
        /\ scur.open = sprev.open
        /\ (hits = {} \/ ~sprev.open) => after = before
        /\ hits # {} =>
            LET k == SetMin(hits) IN
            /\ \A i \in 1..Len(before) : i # k => after[i] = before[i]
            /\ after[k].op_id = before[k].op_id
            /\ after[k].started_at = before[k].started_at
            /\ after[k].status =
                    IF slast.success THEN "success" ELSE "failed"
            /\ after[k].results = OrEmpty(slast.results)
            /\ after[k].completed_at = slast.now

\* C28 witness: end_operation failed an operation whose op_id a later,
\* still running operation shares, in a session with a target.
C28_Witness ==
    /\ spc = "ready"
    /\ slast.op = "end_operation"
    /\ Len(scur.operations) = 2
    /\ scur.operations[1].op_id = scur.operations[2].op_id
    /\ scur.operations[1].status = "failed"
    /\ scur.operations[2].status = "running"
    /\ sprev.operations[1].status = "running"

\* how often x is in the list s
Times(s, x) == Cardinality({i \in 1..Len(s) : s[i] = x})

\* s begins with the list t
StartsWith(s, t) == Len(t) <= Len(s) /\ SubSeq(s, 1, Len(t)) = t

\* C29: an unload_plugin that returns True has removed the name from the
\* instances and the metadata, and no unload_plugin changes the hook table;
\* whatever is called, every hook keeps its callback list as the beginning
\* of its list afterwards; trigger_hook calls every callback of the hook's
\* list, those of plugins no longer loaded too; a load_plugin that returns
\* True has added each callback of the plugin's HOOKS once more.
C29_HooksOutliveUnload ==
    ppc = "ready" =>
        /\ \A h \in DOMAIN pprev.hooks :
            /\ h \in DOMAIN hooks
            /\ StartsWith(hooks[h], pprev.hooks[h])
        /\ plast.op = "unload_plugin" =>
            /\ hooks = pprev.hooks
            /\ plast.ret =>
                /\ plast.name \notin plugins
                /\ plast.name \notin metadata
                /\ plast.name \in pprev.plugins
        /\ plast.op = "trigger_hook" =>
            invoked = HooksGet(hooks, plast.hook)
        /\ (plast.op = "load_plugin" /\ plast.ret) =>
            /\ plast.name \in plugins
            /\ \A k \in 1..Len(HOOKS(plast.name)) :
                LET item == HOOKS(plast.name)[k] IN
                Times(HooksGet(hooks, item.hook), item.callback) =
                    Times(HooksGet(pprev.hooks, item.hook), item.callback) + 1

\* C29 witness: alpha was loaded twice and unloaded, and trigger_hook has
\* called its on_scan callback twice while no plugin is loaded.
C29_Witness ==
    /\ ppc = "ready"
    /\ plast.op = "trigger_hook"
    /\ plast.hook = "on_scan"
    /\ plugins = {}
    /\ "alpha" \notin metadata
    /\ invoked = <<<<"alpha", "on_scan">>, <<"alpha", "on_scan">>>>

\* C30: every loop iteration begins with session_active true; the loop is
\* not ended by an exception while an ordinary exception of a module handler
\* is being handled, nor by a KeyboardInterrupt raised in the loop body; and
\* when run has returned, the last menu choice was a jack-out choice ("00",
\* "exit", "jackout", or "00" standing for end of input), cleanup has been
\* executed and session_active is false.
C30_LoopEndsOnlyByJackOut ==
    /\ epc = "banner" => session_active
    /\ ~(epc = "raised" /\ ecause = "module")
    /\ epc = "returned" =>
        /\ IsJackOut(choice)
        /\ cleaned
        /\ ~session_active

====
